---------------------------- MODULE Spec2Model ----------------------------
(***************************************************************************)
(* State-machine model of xorm's Find / cacheFind / noCacheFind and of the *)
(* cache invalidation done by Insert and Update (session_find.go,          *)
(* session_insert.go, internal/statements/cache.go).                       *)
(*                                                                         *)
(* One table is modelled.  A row is [pk, val]: pk is the primary key (a    *)
(* tuple, one component per primary-key column) and val stands for the     *)
(* non-key columns (a version number that Update increments).  The table   *)
(* is the sequence of its rows in the order the database returns them.     *)
(* A session is a goroutine running one call at a time; every access to    *)
(* the database or to the shared cacher is a step of its own.              *)
(***************************************************************************)
EXTENDS Integers, Sequences, FiniteSets, TLC

(***************************************************************************)
(* Bounds of the model and program constants.                              *)
(***************************************************************************)
MaxKey == 2          \* key values 1..MaxKey exist in the small tables
MaxVal == 2          \* an Update raises val up to MaxVal
MaxPermLen == 3      \* backfill results up to this length come back in every order
CacheIdCap == 500    \* session_find.go:370  "if i > 500"

Sessions == {"s1", "s2"}

(***************************************************************************)
(* Primary keys (schemas.PK) and beans.                                    *)
(***************************************************************************)
\* The key of the i-th row of a table with n primary-key columns.
MkPK(n, i) == [c \in 1..n |-> IF c = 1 THEN i ELSE i + c - 1]

\* PK.ToString: the canonical cache key of a primary key.
PKToString(pk) == ToString(pk)

Row(pk, v) == [pk |-> pk, val |-> v]

\* A bean of struct type typ materialized from a row.
Bean(typ, row) == [typ |-> typ, pk |-> row.pk, val |-> row.val]

NilBean == [typ |-> "nil", pk |-> << >>, val |-> 0]

\* table.IDOfV(bean): the primary key read from the bean's key fields.
IDOfV(bean) == bean.pk

\* A function with an empty domain (an empty Go map).
EmptyMap == [x \in {} |-> x]

MapGet(m, k, default) == IF k \in DOMAIN m THEN m[k] ELSE default

MapPut(m, k, v) == [x \in (DOMAIN m) \cup {k} |-> IF x = k THEN v ELSE m[x]]

Range(q) == {q[i] : i \in DOMAIN q}

PKs(q) == [i \in DOMAIN q |-> q[i].pk]

Reverse(q) == [i \in 1..Len(q) |-> q[Len(q) + 1 - i]]

\* Every order in which a query without ORDER BY may return the rows q.
Orders(q) ==
  IF Len(q) <= MaxPermLen
  THEN {[i \in 1..Len(q) |-> q[p[i]]] : p \in Permutations(1..Len(q))}
  ELSE {q, Reverse(q)}


(***************************************************************************)
(* The statement of a Find call and the shape of its destination.          *)
(*   destKind : kind of the value rowsSlicePtr points to                   *)
(*   depth    : pointer levels of the container's element type             *)
(*              (0: T, 1: *T, 2: **T)                                      *)
(*   base     : the struct type of the element                             *)
(*   keyKind  : reflect.Kind of the key type of a map destination          *)
(*   preset   : session.statement.RefTable was set before the call         *)
(*   tail     : what GenFindSQL writes after the table name                *)
(***************************************************************************)
Stmt(destKind, depth, keyKind, preset, distinct, unscoped, canCache, colsEmpty, tail) ==
  [destKind |-> destKind, depth |-> depth, base |-> "T", keyKind |-> keyKind,
   preset |-> preset, distinct |-> distinct, unscoped |-> unscoped,
   canCache |-> canCache, colsEmpty |-> colsEmpty, tail |-> tail]

NoStmt == Stmt("none", 0, "int", FALSE, FALSE, FALSE, FALSE, TRUE, << >>)

\* strings.ToLower on the words a statement is made of.
ToLower(w) ==
  CASE w \in {"GROUP BY", "Group By", "group by"} -> "group by"
    [] w \in {"HAVING", "Having", "having"} -> "having"
    [] w \in {"FROM", "from"} -> "from"
    [] w \in {"WHERE", "where"} -> "where"
    [] w \in {"SELECT", "select"} -> "select"
    [] OTHER -> w

\* utils.IndexNoCase: position (from 0) of the first occurrence of sub, or -1.
IndexNoCase(s, sub) ==
  IF \E i \in 1..Len(s) : ToLower(s[i]) = sub
  THEN (CHOOSE i \in 1..Len(s) :
          /\ ToLower(s[i]) = sub
          /\ \A j \in 1..(i - 1) : ToLower(s[j]) # sub) - 1
  ELSE -1

\* Statement.GenFindSQL: the SELECT statement of the call.
GenFindSQL(st) == <<"SELECT", "*", "FROM", "t">> \o st.tail

\* find, lines 96-115: RefTable is known when it was preset or when the element
\* type is a struct or a pointer to a struct.
RefTableSet(st) == st.preset \/ st.depth <= 1

\* Statement.ConvertIDSQL: the same statement projecting the primary key only;
\* empty when there is no RefTable, no primary key or no " from ".
ConvertIDSQL(st, pkCount, sqlStr) ==
  IF ~RefTableSet(st) THEN << >>
  ELSE IF pkCount = 0 THEN << >>
  ELSE IF IndexNoCase(sqlStr, "from") = -1 THEN << >>
  ELSE <<"SELECT", "pk", "FROM">> \o SubSeq(sqlStr, IndexNoCase(sqlStr, "from") + 2, Len(sqlStr))

\* find, lines 151-154: the cache is tried at all.
FindTriesCacheNoDistinct(st, cacher) ==
  st.colsEmpty /\ st.canCache /\ cacher /\ ~st.unscoped

FindTriesCache(st, cacher) ==
  st.colsEmpty /\ st.canCache /\ cacher /\ ~st.distinct /\ ~st.unscoped

\* cacheFind, lines 336-340: statements the cache never answers.
CacheFindRefuses(st, sqlStr) ==
  \/ ~st.canCache
  \/ IndexNoCase(sqlStr, "having") # -1
  \/ IndexNoCase(sqlStr, "group by") # -1

\* find, lines 156-158: an error of cacheFind is returned to the caller unless
\* it is ErrCacheFailed.
FindReturnsAnyCacheErr(err) == TRUE

FindReturnsCacheErr(err) == err # "ErrCacheFailed"

(***************************************************************************)
(* ID resolution (cacheFind, lines 360-392).                               *)
(***************************************************************************)
\* rows.ScanSlice(&res): the key columns of a row as strings.
ScanSlice(row) == [c \in DOMAIN row.pk |-> ToString(row.pk[c])]

\* col.ConvertID: the key value parsed back from its string.
ConvertID(str) == CHOOSE v \in 0..(CacheIdCap + MaxKey + 2) : ToString(v) = str

\* The loop counts the rows and gives up at the first row past the cap.
IdsOverCapOffByOne(rows) == \E i \in 1..Len(rows) : i >= CacheIdCap

IdsOverCap(rows) == \E i \in 1..Len(rows) : i > CacheIdCap

ScanIds(rows) ==
  [i \in 1..Len(rows) |-> [c \in DOMAIN rows[i].pk |-> ConvertID(ScanSlice(rows[i])[c])]]

(***************************************************************************)
(* Per-id resolution (cacheFind, lines 408-450).                           *)
(***************************************************************************)
\* fix issue #894: the cached bean has the element type, or the type the
\* element type points to.
IsHitNever(bean, st) == FALSE

IsHit(bean, st) ==
  IF bean = NilBean THEN FALSE
  ELSE LET ckb == [depth |-> 0, base |-> bean.typ]
           t == [depth |-> st.depth, base |-> st.base]
       IN \/ ckb = t
          \/ t.depth > 0 /\ [t EXCEPT !.depth = t.depth - 1] = ckb

(***************************************************************************)
(* The container (noCacheFind lines 255-293, cacheFind lines 507-543).     *)
(***************************************************************************)
EmptyDest == [seq |-> << >>, map |-> EmptyMap]

\* convert.AssignValue of a key value to the map's key type.
AssignValue(keyKind, v) ==
  CASE keyKind = "int" -> [ok |-> TRUE, v |-> v]
    [] keyKind = "string" -> [ok |-> TRUE, v |-> ToString(v)]
    [] OTHER -> [ok |-> FALSE, v |-> v]

\* Successive SetMapIndex(keys[j], vals[j]) for the positions in use, in order:
\* a later position overwrites an earlier one with the same key.
SetMapIndexAll(keys, vals, use) ==
  [k \in {keys[j] : j \in use} |->
     vals[CHOOSE j \in use : keys[j] = k /\ \A i \in use : keys[i] = k => i <= j]]

\* cacheFind, lines 507-543, slice destination: the beans of temps in the order
\* of the id list, the unresolved ones skipped.
ComposeSliceUpToNil(temps) ==
  LET nils == {j \in 1..Len(temps) : temps[j] = NilBean}
      first == IF nils = {} THEN Len(temps) + 1
               ELSE CHOOSE j \in nils : \A k \in nils : j <= k
  IN SubSeq(temps, 1, first - 1)

ComposeSliceReversed(temps) == Reverse(SelectSeq(temps, LAMBDA b : b # NilBean))

ComposeSlice(temps) == SelectSeq(temps, LAMBDA b : b # NilBean)

\* cacheFind, lines 520-542, map destination: the key of an entry is the id at
\* the bean's position, converted to the key type of the map.
ComposeMapKeyOfPosition(st, ids, temps) ==
  LET use == {j \in 1..Len(temps) : temps[j] # NilBean}
  IN [err |-> "nil",
      map |-> SetMapIndexAll([j \in 1..Len(ids) |-> AssignValue(st.keyKind, j).v], temps, use)]

ComposeMap(st, ids, temps) ==
  LET use == {j \in 1..Len(temps) : temps[j] # NilBean}
      keys == [j \in 1..Len(ids) |->
                 IF Len(ids[j]) = 1 THEN AssignValue(st.keyKind, ids[j][1]) 
                 ELSE [ok |-> st.keyKind = "slice", v |-> ids[j]]]
  IN IF \E j \in use : Len(ids[j]) = 1 /\ ~keys[j].ok
       THEN [err |-> "AssignValue", map |-> EmptyMap]
     ELSE IF \E j \in use : Len(ids[j]) > 1 /\ st.keyKind # "slice"
       THEN [err |-> "table have multiple primary keys, key is not schemas.PK or slice",
             map |-> EmptyMap]
     ELSE [err |-> "nil",
           map |-> SetMapIndexAll([j \in 1..Len(ids) |-> keys[j].v], temps, use)]

\* noCacheFind after its query returned rows (lines 255-310): the check of the
\* map's key type, then one bean per row in the order of the rows.  The key
\* kinds of the statements are "int", "string" and "array": no Go map has a key
\* type of Kind Slice.
Materialize(st, pkCount, rows) ==
  LET beans == [j \in 1..Len(rows) |-> Bean(st.base, rows[j])]
      keys == [j \in 1..Len(rows) |->
                 IF pkCount = 1 THEN AssignValue(st.keyKind, rows[j].pk[1])
                 ELSE [ok |-> TRUE, v |-> rows[j].pk]]
  IN IF st.destKind = "slice"
       THEN [err |-> "nil", seq |-> beans, map |-> EmptyMap]
     ELSE IF pkCount = 0 \/ (pkCount > 1 /\ st.keyKind # "slice")
       THEN [err |-> "don't support multiple primary key's map has non-slice key type",
             seq |-> << >>, map |-> EmptyMap]
     ELSE IF \E j \in 1..Len(rows) : ~keys[j].ok
       THEN [err |-> "AssignValue", seq |-> << >>, map |-> EmptyMap]
     ELSE [err |-> "nil", seq |-> << >>,
           map |-> SetMapIndexAll([j \in 1..Len(rows) |-> keys[j].v], beans, 1..Len(rows))]


(***************************************************************************)
(* State.                                                                  *)
(***************************************************************************)
VARIABLES
  db,         \* the table: its rows in the order the database returns them
  pkCount,    \* number of primary-key columns of the table (len(table.PrimaryKeys))
  hasCacher,  \* engine.cacherMgr has a cacher for the table
  idCache,    \* cacher: id list per ID-resolution statement (GetCacheSql/PutCacheSql)
  beanCache,  \* cacher: bean per canonical key string (GetBean/PutBean)
  ses,        \* per session: position in its call, statement and local variables
  committed,  \* history: pk -> val of the writes that have returned
  sd,         \* a table with a soft-delete column and the last call on it
  tx,         \* a call of Engine.Transaction
  mg,         \* a Migrate object, its migrations table and its call in progress
  it,         \* a call of Session.Iterate
  cs,         \* a call of ParseColumnsSchema
  rc,         \* a call of Find or Iterate and the cursors it has opened
  hk,         \* an Insert of one bean and the hooks it has run
  ar          \* a session's autoResetStatement and its call in progress

findVars == <<db, pkCount, hasCacher, idCache, beanCache, ses, committed>>

otherVars == <<sd, tx, mg, it, cs, rc, hk, ar>>

vars == <<findVars, otherVars>>

\* A component no call is made on.
Off == [pc |-> "off"]

\* A session between two calls.
Idle ==
  [pc |-> "idle", st |-> NoStmt, dest |-> EmptyDest, err |-> "nil",
   ids |-> << >>, idx |-> 0, ides |-> << >>, ididxes |-> EmptyMap,
   temps |-> << >>, beans |-> << >>,
   wkey |-> << >>, wval |-> 0, wuse |-> FALSE,
   \* instrumentation of the call in progress
   nIdQ |-> 0, nBackQ |-> 0, nDirQ |-> 0, cRead |-> FALSE, cWrite |-> FALSE,
   failed |-> FALSE, path |-> "none", cold |-> FALSE, floor |-> EmptyMap,
   \* the previous Find of this session, while no write has started since
   prev |-> [ok |-> FALSE]]

Set(s, f) == ses' = [ses EXCEPT ![s] = f]

\* A write starts: no session's previous Find is "without intervening write".
SetW(s, f) ==
  ses' = [x \in DOMAIN ses |->
            IF x = s THEN [f EXCEPT !.prev = [ok |-> FALSE]]
            ELSE [ses[x] EXCEPT !.prev = [ok |-> FALSE]]]

\* find, lines 155-163: cacheFind ended with ErrCacheFailed; find logs it and
\* goes on with noCacheFind, unless it returns the error as it is.
CacheFailed(f) ==
  IF FindReturnsCacheErr("ErrCacheFailed")
  THEN [f EXCEPT !.pc = "done", !.err = "ErrCacheFailed", !.failed = TRUE]
  ELSE [f EXCEPT !.pc = "noCacheFind", !.failed = TRUE]

\* cacheFind returns err, which is not ErrCacheFailed; find returns it.
Fail(f, err) == [f EXCEPT !.pc = "done", !.err = err]

\* cacheFind, line 402-406: the id list is known.
WithIds(f, ids) ==
  [f EXCEPT !.ids = ids, !.idx = 0, !.ides = << >>, !.ididxes = EmptyMap,
            !.temps = [j \in 1..Len(ids) |-> NilBean],
            !.pc = IF Len(ids) = 0 THEN "compose" ELSE "getBean"]

(***************************************************************************)
(* Find (session_find.go).                                                 *)
(***************************************************************************)
\* Session.Find / Session.find, lines 29-34 and 81-161: the shape of the
\* destination, the statement, and the choice between cacheFind and noCacheFind.
Find(s, st) ==
  /\ ses[s].pc = "idle"
  /\ LET f == [ses[s] EXCEPT !.st = st, !.floor = committed,
                             !.cold = (idCache = EmptyMap /\ beanCache = EmptyMap)]
     IN IF st.destKind \notin {"slice", "map"}
          THEN Set(s, Fail(f, "needs a pointer to a slice or a map"))
        ELSE IF FindTriesCache(st, hasCacher)
          THEN Set(s, [f EXCEPT !.pc = "cacheFind"])
        ELSE Set(s, [f EXCEPT !.pc = "noCacheFind"])
  /\ UNCHANGED <<db, pkCount, hasCacher, idCache, beanCache, committed>>
  /\ UNCHANGED otherVars

\* cacheFind, lines 336-358 and 398-406: the refusals, the cacher, the rewritten
\* statement and the lookup of its id list.
cacheFind(s) ==
  /\ ses[s].pc = "cacheFind"
  /\ LET f == ses[s]
         sqlStr == GenFindSQL(f.st)
         newsql == ConvertIDSQL(f.st, pkCount, sqlStr)
     IN IF CacheFindRefuses(f.st, sqlStr) THEN Set(s, CacheFailed(f))
        ELSE IF ~hasCacher THEN Set(s, [f EXCEPT !.pc = "done", !.err = "nil"])
        ELSE IF newsql = << >> THEN Set(s, CacheFailed(f))
        ELSE IF newsql \in DOMAIN idCache
          THEN Set(s, WithIds([f EXCEPT !.cRead = TRUE, !.path = "cache"], idCache[newsql]))
        ELSE Set(s, [f EXCEPT !.cRead = TRUE, !.path = "cache", !.pc = "queryIds"])
  /\ UNCHANGED <<db, pkCount, hasCacher, idCache, beanCache, committed>>
  /\ UNCHANGED otherVars

\* cacheFind, lines 360-392: the ID-resolution query and the loop over its rows.
cacheFindQueryIds(s) ==
  /\ ses[s].pc = "queryIds"
  /\ LET f == [ses[s] EXCEPT !.nIdQ = @ + 1]
     IN IF IdsOverCap(db) THEN Set(s, CacheFailed(f))
        ELSE Set(s, [f EXCEPT !.ids = ScanIds(db), !.pc = "putCacheSql"])
  /\ UNCHANGED <<db, pkCount, hasCacher, idCache, beanCache, committed>>
  /\ UNCHANGED otherVars

\* cacheFind, lines 393-397: caches.PutCacheSql.
cacheFindPutCacheSql(s) ==
  /\ ses[s].pc = "putCacheSql"
  /\ LET f == ses[s]
         newsql == ConvertIDSQL(f.st, pkCount, GenFindSQL(f.st))
     IN /\ idCache' = MapPut(idCache, newsql, f.ids)
        /\ Set(s, WithIds([f EXCEPT !.cWrite = TRUE], f.ids))
  /\ UNCHANGED <<db, pkCount, hasCacher, beanCache, committed>>
  /\ UNCHANGED otherVars

\* cacheFind, lines 408-450: one turn of the loop over the ids.
cacheFindGetBean(s) ==
  /\ ses[s].pc = "getBean"
  /\ LET f == ses[s]
         id == f.ids[f.idx + 1]
         sid == PKToString(id)
         bean == MapGet(beanCache, sid, NilBean)
         next == IF f.idx + 1 < Len(f.ids) THEN "getBean"
                 ELSE IF f.ides # << >> \/ ~IsHit(bean, f.st) THEN "backfill"
                 ELSE "compose"
     IN IF ~IsHit(bean, f.st)
          THEN Set(s, [f EXCEPT !.cRead = TRUE, !.ides = Append(@, id),
                                !.ididxes = MapPut(@, sid, f.idx),
                                !.idx = @ + 1, !.pc = next])
        ELSE IF PKToString(IDOfV(bean)) # sid
          THEN Set(s, CacheFailed([f EXCEPT !.cRead = TRUE]))
        ELSE Set(s, [f EXCEPT !.cRead = TRUE, !.temps[f.idx + 1] = bean,
                              !.idx = @ + 1, !.pc = next])
  /\ UNCHANGED <<db, pkCount, hasCacher, idCache, beanCache, committed>>
  /\ UNCHANGED otherVars

\* cacheFind, lines 452-483: the backfill, one query for all the ids that missed,
\* run by find/noCacheFind on a fresh statement into a slice of the element type.
cacheFindBackfill(s) ==
  /\ ses[s].pc = "backfill"
  /\ LET f == ses[s]
         wanted == SelectSeq(db, LAMBDA r : r.pk \in Range(f.ides))
     IN IF f.st.depth >= 2
          THEN Set(s, Fail(f, "pointer to pointer is not supported"))
        ELSE \E rows \in Orders(wanted) :
               Set(s, [f EXCEPT !.nBackQ = @ + 1,
                                !.beans = Materialize([f.st EXCEPT !.destKind = "slice"],
                                                      pkCount, rows).seq,
                                !.idx = 0,
                                !.pc = IF Len(rows) = 0 THEN "compose" ELSE "putBean"])
  /\ UNCHANGED <<db, pkCount, hasCacher, idCache, beanCache, committed>>
  /\ UNCHANGED otherVars

\* cacheFind, lines 485-505: one turn of the loop over the backfilled beans.
cacheFindPutBean(s) ==
  /\ ses[s].pc = "putBean"
  /\ LET f == ses[s]
         bean == f.beans[f.idx + 1]
         sid == PKToString(IDOfV(bean))
     IN /\ beanCache' = MapPut(beanCache, sid, bean)
        /\ Set(s, [f EXCEPT !.cWrite = TRUE,
                            !.temps[MapGet(f.ididxes, sid, 0) + 1] = bean,
                            !.idx = @ + 1,
                            !.pc = IF f.idx + 1 < Len(f.beans) THEN "putBean" ELSE "compose"])
  /\ UNCHANGED <<db, pkCount, hasCacher, idCache, committed>>
  /\ UNCHANGED otherVars

\* cacheFind, lines 507-545: the result is put together in the order of the ids.
cacheFindCompose(s) ==
  /\ ses[s].pc = "compose"
  /\ LET f == ses[s]
         m == ComposeMap(f.st, f.ids, f.temps)
     IN IF f.st.destKind = "slice"
          THEN Set(s, [f EXCEPT !.dest.seq = @ \o ComposeSlice(f.temps), !.pc = "done"])
        ELSE Set(s, [f EXCEPT !.dest.map = m.map @@ @, !.err = m.err, !.pc = "done"])
  /\ UNCHANGED <<db, pkCount, hasCacher, idCache, beanCache, committed>>
  /\ UNCHANGED otherVars

\* noCacheFind, lines 224-333: the element type, the query, the container.
noCacheFind(s) ==
  /\ ses[s].pc = "noCacheFind"
  /\ LET f == ses[s]
         r == Materialize(f.st, pkCount, db)
     IN IF f.st.depth >= 2
          THEN Set(s, Fail(f, "pointer to pointer is not supported"))
        ELSE Set(s, [f EXCEPT !.nDirQ = @ + 1, !.path = "direct", !.err = r.err,
                              !.dest = [seq |-> f.dest.seq \o r.seq, map |-> r.map @@ f.dest.map],
                              !.pc = "done"])
  /\ UNCHANGED <<db, pkCount, hasCacher, idCache, beanCache, committed>>
  /\ UNCHANGED otherVars

\* Find has returned to its caller; the session is free for its next call.
\* With keep, the call is remembered as the session's previous Find.
Return(s, keep) ==
  /\ ses[s].pc = "done"
  /\ Set(s, [Idle EXCEPT !.prev = IF keep
                                  THEN [ok |-> TRUE, st |-> ses[s].st, dest |-> ses[s].dest,
                                        err |-> ses[s].err, path |-> ses[s].path,
                                        cold |-> ses[s].cold]
                                  ELSE [ok |-> FALSE]])
  /\ UNCHANGED <<db, pkCount, hasCacher, idCache, beanCache, committed>>
  /\ UNCHANGED otherVars

CacheFindSteps(s) ==
  \/ cacheFind(s)
  \/ cacheFindQueryIds(s)
  \/ cacheFindPutCacheSql(s)
  \/ cacheFindGetBean(s)
  \/ cacheFindBackfill(s)
  \/ cacheFindPutBean(s)
  \/ cacheFindCompose(s)


(***************************************************************************)
(* Writes (session_insert.go; Update is described by the specification     *)
(* only).                                                                  *)
(***************************************************************************)
HasRow(pk) == \E i \in 1..Len(db) : db[i].pk = pk

\* Cacher.ClearIds(table): every id list of the table is dropped.
ClearIds == EmptyMap

\* Cacher.DelBean(table, sid).
DelBean(cache, sid) == [x \in (DOMAIN cache) \ {sid} |-> cache[x]]

\* The write of the session has returned.
Commit(f) ==
  IF f.wkey \in DOMAIN committed /\ committed[f.wkey] >= f.wval THEN committed
  ELSE MapPut(committed, f.wkey, f.wval)

\* The rows whose Insert has returned.
Inserted(c) == {pk \in DOMAIN c : c[pk] = 1}

\* cacheInsert, lines 436-447: the id lists of the table are cleared when the
\* statement uses the cache and the table has a cacher.
CacheInsert(useCache, cacher, cache) ==
  IF ~useCache THEN cache
  ELSE IF ~cacher THEN cache
  ELSE ClearIds

\* insertStruct, lines 250-387 (insertMultipleStruct, lines 195-200, has the same
\* order): the INSERT statement is executed; an error returns at once.
insertStruct(s, pk, useCache) ==
  /\ ses[s].pc = "idle"
  /\ IF HasRow(pk)
       THEN /\ SetW(s, ses[s])
            /\ db' = db
       ELSE /\ SetW(s, [ses[s] EXCEPT !.pc = "cacheInsert", !.wkey = pk, !.wval = 1,
                                      !.wuse = useCache])
            /\ db' = Append(db, Row(pk, 1))
  /\ UNCHANGED <<pkCount, hasCacher, idCache, beanCache, committed>>
  /\ UNCHANGED otherVars

\* insertStruct, line 387: cacheInsert after the statement, then the return.
insertStructCacheInsert(s) ==
  /\ ses[s].pc = "cacheInsert"
  /\ idCache' = CacheInsert(ses[s].wuse, hasCacher, idCache)
  /\ committed' = Commit(ses[s])
  /\ Set(s, [Idle EXCEPT !.prev = ses[s].prev])
  /\ UNCHANGED <<db, pkCount, hasCacher, beanCache>>
  /\ UNCHANGED otherVars

\* insertMap, lines 647-661 (insertMultipleMap, lines 674-688, has the same
\* order): cacheInsert before the statement is executed.
insertMap(s, pk, useCache) ==
  /\ ses[s].pc = "idle"
  /\ idCache' = CacheInsert(useCache, hasCacher, idCache)
  /\ SetW(s, [ses[s] EXCEPT !.pc = "insertMapExec", !.wkey = pk, !.wval = 1,
                            !.wuse = useCache])
  /\ UNCHANGED <<db, pkCount, hasCacher, beanCache, committed>>
  /\ UNCHANGED otherVars

\* insertMap, lines 663-671: the INSERT statement, then the return.
insertMapExec(s) ==
  /\ ses[s].pc = "insertMapExec"
  /\ IF HasRow(ses[s].wkey)
       THEN UNCHANGED <<db, committed>>
       ELSE /\ db' = Append(db, Row(ses[s].wkey, 1))
            /\ committed' = Commit(ses[s])
  /\ Set(s, [Idle EXCEPT !.prev = ses[s].prev])
  /\ UNCHANGED <<pkCount, hasCacher, idCache, beanCache>>
  /\ UNCHANGED otherVars

\* Update: the UPDATE statement changes the row.
Update(s, pk) ==
  /\ ses[s].pc = "idle"
  /\ \E i \in 1..Len(db) :
       /\ db[i].pk = pk
       /\ db[i].val < MaxVal
       /\ db' = [db EXCEPT ![i].val = @ + 1]
       /\ SetW(s, [ses[s] EXCEPT !.pc = "cacheUpdate", !.wkey = pk, !.wval = db[i].val + 1])
  /\ UNCHANGED <<pkCount, hasCacher, idCache, beanCache, committed>>
  /\ UNCHANGED otherVars

\* Update: the id lists of the table and the bean of the row are removed from
\* the cache, then Update returns.
cacheUpdate(s) ==
  /\ ses[s].pc = "cacheUpdate"
  /\ idCache' = (IF hasCacher THEN ClearIds ELSE idCache)
  /\ beanCache' = (IF hasCacher THEN DelBean(beanCache, PKToString(ses[s].wkey)) ELSE beanCache)
  /\ committed' = Commit(ses[s])
  /\ Set(s, [Idle EXCEPT !.prev = ses[s].prev])
  /\ UNCHANGED <<db, pkCount, hasCacher>>
  /\ UNCHANGED otherVars

WriteSteps(s) ==
  \/ insertStructCacheInsert(s)
  \/ insertMapExec(s)
  \/ cacheUpdate(s)

(***************************************************************************)
(* Initial states and specifications.                                      *)
(***************************************************************************)
\* Tables of up to n rows with distinct keys 1..n, in every order, val = 1.
Tables(n, cols) ==
  UNION {{[i \in 1..Cardinality(S) |-> Row(MkPK(cols, p[i]), 1)] :
            p \in {q \in [1..Cardinality(S) -> S] :
                     \A a, b \in 1..Cardinality(S) : a # b => q[a] # q[b]}} :
         S \in SUBSET (1..n)}

\* tables[n]: the tables with n primary-key columns a behaviour may start with.
InitWith(tables, counts, cachers) ==
  /\ pkCount \in counts
  /\ db \in tables[pkCount]
  /\ hasCacher \in cachers
  /\ idCache = EmptyMap
  /\ beanCache = EmptyMap
  /\ ses = [s \in Sessions |-> Idle]
  /\ committed = EmptyMap
  /\ sd = Off /\ tx = Off /\ mg = Off /\ it = Off /\ cs = Off /\ rc = Off /\ hk = Off /\ ar = Off

SmallTables(cols) == Tables(MaxKey, cols)

\* A statement the cache may answer, into a slice or a map keyed by the key.
Plain(dk, kk) ==
  Stmt(dk, 0, kk, FALSE, FALSE, FALSE, TRUE, TRUE, << >>)

(* Concurrent sessions sharing one cacher. *)
ConcStmts == {Plain("slice", "int")}

Init == InitWith([n \in {1} |-> SmallTables(n)], {1}, {TRUE})

\* One goroutine issues Finds while the other inserts and updates.
Readers == {"s1"}

Writers == {"s2"}

Next ==
  \/ \E s \in Readers :
       \/ \E st \in ConcStmts : Find(s, st)
       \/ CacheFindSteps(s)
       \/ Return(s, FALSE)
  \/ \E s \in Writers :
       \/ \E i \in 1..MaxKey : insertStruct(s, MkPK(pkCount, i), TRUE)
       \/ \E i \in 1..MaxKey : insertMap(s, MkPK(pkCount, i), TRUE)
       \/ \E i \in 1..MaxKey : Update(s, MkPK(pkCount, i))
       \/ WriteSteps(s)

Spec == Init /\ [][Next]_vars


(* One session, statements the cache may answer, inserts and updates in      *)
(* between; the previous Find is remembered.                                 *)
SeqKeys == 2

SeqTables(cols) == Tables(SeqKeys, cols)

SeqStmts ==
  {Stmt("slice", dp, "int", FALSE, FALSE, u, TRUE, TRUE, << >>) :
     dp \in {0, 1}, u \in BOOLEAN}
    \cup {Stmt("map", 0, kk, FALSE, FALSE, u, TRUE, TRUE, << >>) :
            kk \in {"int", "string"}, u \in BOOLEAN}

InitSeq == InitWith([n \in {1, 2} |-> SeqTables(n)], {1, 2}, {TRUE})

NextSeq ==
  \E s \in {"s1"} :
    \/ \E st \in SeqStmts : Find(s, st)
    \/ CacheFindSteps(s)
    \/ noCacheFind(s)
    \/ Return(s, TRUE)
    \/ \E i \in 1..SeqKeys, u \in BOOLEAN : insertStruct(s, MkPK(pkCount, i), u)
    \/ insertStructCacheInsert(s)
    \/ \E i \in 1..SeqKeys : Update(s, MkPK(pkCount, i))
    \/ cacheUpdate(s)

SpecSeq == InitSeq /\ [][NextSeq]_vars

(* One session, every statement flag and every destination shape.           *)
BigTable(n, cols) == [i \in 1..n |-> Row(MkPK(cols, i), 1)]

StmtTables(cols) == Tables(MaxKey, cols)

Tails == {<< >>, <<"WHERE">>, <<"GROUP BY">>, <<"WHERE", "group by">>,
          <<"Group By", "Having">>, <<"HAVING">>}

FlagStmts ==
  {Stmt("slice", 0, "int", FALSE, d, u, c, e, t) :
     d \in BOOLEAN, u \in BOOLEAN, c \in BOOLEAN, e \in BOOLEAN, t \in Tails}

ShapeStmts ==
  {Stmt(dk, dp, kk, p, FALSE, FALSE, TRUE, TRUE, << >>) :
     dk \in {"slice", "map", "struct"}, dp \in 0..2, kk \in {"int", "string", "array"},
     p \in BOOLEAN}

\* A key type of array kind is a key type for a composite key.
Sensible(st) == st.keyKind = "array" => pkCount > 1

InitStmt == InitWith([n \in {1, 2} |-> StmtTables(n)], {1, 2}, BOOLEAN)

NextStmt ==
  \E s \in {"s1"} :
    \/ \E st \in {x \in FlagStmts \cup ShapeStmts : Sensible(x)} : Find(s, st)
    \/ CacheFindSteps(s)
    \/ noCacheFind(s)
    \/ Return(s, FALSE)

SpecStmt == InitStmt /\ [][NextStmt]_vars

(* One session and tables around the cap of the id list.                     *)
CapTables(cols) == {BigTable(n, cols) : n \in (CacheIdCap - 1)..(CacheIdCap + 2)}

InitCap == InitWith([n \in {1} |-> CapTables(n)], {1}, {TRUE})

\* Statements the cache answers, one it refuses and one it cannot rewrite.
CapStmts ==
  {Plain("slice", "int"), Plain("map", "int"),
   Stmt("slice", 0, "int", FALSE, FALSE, FALSE, TRUE, TRUE, <<"GROUP BY">>),
   Stmt("slice", 2, "int", FALSE, FALSE, FALSE, TRUE, TRUE, << >>)}

NextCap ==
  \E s \in {"s1"} :
    \/ \E st \in CapStmts : Find(s, st)
    \/ CacheFindSteps(s)
    \/ noCacheFind(s)
    \/ Return(s, FALSE)

SpecCap == InitCap /\ [][NextCap]_vars


(***************************************************************************)
(* Properties.                                                             *)
(***************************************************************************)
\* The call of the session that issues the Finds.
Call == ses["s1"]

Returned == Call.pc = "done"

\* The keys of the rows whose write had returned when the call started.
WrittenBefore(f) == DOMAIN f.floor

\* The words that make a statement one with grouping or aggregation.
GroupingWords == {"GROUP BY", "Group By", "group by", "HAVING", "Having", "having"}

HasGrouping(st) == \E i \in 1..Len(GenFindSQL(st)) : GenFindSQL(st)[i] \in GroupingWords

\* The statement of the ID-resolution query of the call.
Fingerprint(f) == ConvertIDSQL(f.st, pkCount, GenFindSQL(f.st))

\* The primary-key value of a bean as a key of a map of key kind kk.
KeyOf(kk, bean) == IF kk = "string" THEN ToString(bean.pk[1]) ELSE bean.pk[1]

\* The table as a direct Find of statement st materializes it.
DirectResult(st) ==
  [seq |-> IF st.destKind = "slice" THEN [j \in 1..Len(db) |-> Bean("T", db[j])] ELSE << >>,
   map |-> IF st.destKind = "map" /\ st.depth <= 1
           THEN [k \in {KeyOf(st.keyKind, Bean("T", db[j])) : j \in 1..Len(db)} |->
                   Bean("T", db[CHOOSE j \in 1..Len(db) : KeyOf(st.keyKind, Bean("T", db[j])) = k])]
           ELSE EmptyMap]

\* C1: under every interleaving of sessions sharing one cacher, a cache-assisted
\* Find that starts after an Update of a row has returned never returns that
\* row with a value older than the one the Update wrote.
C1_NoStaleBeanAfterUpdate ==
  (Returned /\ Call.path = "cache" /\ Call.err = "nil") =>
    \A j \in 1..Len(Call.dest.seq) :
      Call.dest.seq[j].pk \in WrittenBefore(Call) =>
        Call.dest.seq[j].val >= Call.floor[Call.dest.seq[j].pk]

\* A Find that ran while an Update of row 1 went through returned; the bean of
\* the pre-update row is in the bean cache although the Update has returned.
C1_StaleBeanCached ==
  /\ Call.pc = "idle"
  /\ \E pk \in DOMAIN committed :
       /\ committed[pk] > 1
       /\ PKToString(pk) \in DOMAIN beanCache
       /\ beanCache[PKToString(pk)].val < committed[pk]

\* C2: a cache-assisted Find that starts after an Insert has returned includes
\* the inserted row (the id lists were cleared, the ids are resolved again).
C2_InsertedRowFound ==
  (Returned /\ Call.path = "cache" /\ Call.err = "nil") =>
    Inserted(Call.floor) \subseteq Range(PKs(Call.dest.seq))

\* An Insert has returned and an id list without the inserted row is cached.
C2_StaleIdListCached ==
  \E pk \in Inserted(committed) :
    \E q \in DOMAIN idCache : pk \notin Range(idCache[q])

\* C3: a Find on a table without cacher, or with Distinct, or Unscoped, or whose
\* SQL has "group by" or "having" in any case, neither reads nor writes the id
\* lists or the bean cache and runs no ID-resolution or backfill query; its
\* result is the result of the direct query.
C3_NeverAnsweredFromCache ==
  (Call.st.destKind \in {"slice", "map"}
     /\ (~hasCacher \/ Call.st.distinct \/ Call.st.unscoped \/ HasGrouping(Call.st))) =>
    /\ ~Call.cRead /\ ~Call.cWrite
    /\ Call.nIdQ = 0 /\ Call.nBackQ = 0
    /\ Call.ids = << >> /\ Call.temps = << >>
    /\ (Returned /\ Call.err = "nil") =>
         /\ Call.path = "direct"
         /\ Call.nDirQ = 1
         /\ Call.dest = DirectResult(Call.st)

\* A Find with a cacher whose SQL has a lower-case "group by" went into
\* cacheFind, was refused and returned the two rows of the table directly.
C3_GroupByAnsweredDirectly ==
  /\ Returned /\ hasCacher /\ Call.failed
  /\ Call.st.tail = <<"WHERE", "group by">>
  /\ Call.path = "direct"
  /\ Len(Call.dest.seq) = 2

\* C4: on a cold cache a cache-assisted Find matching n >= 1 rows runs exactly
\* one ID-resolution query and one backfill query; the identical Find repeated
\* with no write in between runs neither and returns the identical result.
C4_ColdThenWarm ==
  /\ (Returned /\ Call.cold /\ Call.path = "cache" /\ Call.err = "nil" /\ Len(Call.ids) >= 1) =>
       /\ Call.nIdQ = 1
       /\ Call.nBackQ = 1
  /\ (Returned /\ Call.prev.ok /\ Call.prev.st = Call.st /\ Call.prev.cold
        /\ Call.prev.path = "cache" /\ Call.prev.err = "nil"
        /\ Call.prev.dest # EmptyDest) =>
       /\ Call.nIdQ = 0
       /\ Call.nBackQ = 0
       /\ Call.nDirQ = 0
       /\ Call.err = "nil"
       /\ Call.dest = Call.prev.dest

\* The second of two identical Finds of two rows, the first one on a cold
\* cache, has returned.
C4_RepeatedFindReturned ==
  /\ Returned /\ Call.prev.ok /\ Call.prev.st = Call.st /\ Call.prev.cold
  /\ Call.prev.path = "cache" /\ Call.prev.err = "nil"
  /\ Call.st.destKind = "slice"
  /\ Len(Call.prev.dest.seq) = 2
  /\ Call.path = "cache"

\* C5: a Find that runs the ID-resolution query gives the cache up exactly when
\* the query returns more than 500 rows.  Then no id list is stored for the
\* statement, the destination is empty when the direct query starts, and the
\* Find returns every row once.  With 500 rows or fewer the id list is stored
\* and the Find returns from the cache path with every row.
C5_CapAt500 ==
  /\ (Call.nIdQ = 1 /\ Call.pc \in {"noCacheFind", "done"}) =>
       (Call.failed <=> Len(db) > CacheIdCap)
  /\ (Call.nIdQ = 1 /\ Call.failed) =>
       /\ Fingerprint(Call) \notin DOMAIN idCache
       /\ ~Call.cWrite
       /\ Call.pc = "noCacheFind" => Call.dest = EmptyDest
       /\ Returned =>
            /\ Call.path = "direct"
            /\ Call.err = "nil"
            /\ Call.dest = DirectResult(Call.st)
            /\ Call.st.destKind = "slice" => Len(Call.dest.seq) = Len(db)
            /\ Call.st.destKind = "map" => Cardinality(DOMAIN Call.dest.map) = Len(db)
  /\ (Call.nIdQ = 1 /\ Returned /\ ~Call.failed) =>
       /\ Call.path = "cache"
       /\ Call.err = "nil"
       /\ Fingerprint(Call) \in DOMAIN idCache
       /\ idCache[Fingerprint(Call)] = PKs(db)
       /\ Call.dest = DirectResult(Call.st)

\* A Find into a slice on a table of 501 rows gave the cache up and returned
\* 501 beans.
C5_FallbackOf501Rows ==
  /\ Returned /\ Call.failed /\ Call.nIdQ = 1
  /\ Len(db) = CacheIdCap + 1
  /\ Len(Call.dest.seq) = CacheIdCap + 1

\* C6: Find never returns ErrCacheFailed.  When cacheFind ends with it, the
\* destination is still empty, Find goes on with noCacheFind, and what the
\* caller gets is the outcome of the direct query alone.
C6_CacheFailedNeverSurfaces ==
  /\ Returned => Call.err # "ErrCacheFailed"
  /\ Call.failed =>
       /\ Call.pc \in {"noCacheFind", "done"}
       /\ Call.nBackQ = 0
       /\ Call.pc = "noCacheFind" => Call.dest = EmptyDest /\ Call.err = "nil"
       /\ Returned =>
            \/ /\ Call.st.depth <= 1
               /\ Call.path = "direct"
               /\ Call.nDirQ = 1
               /\ Call.err = "nil"
               /\ Call.dest = DirectResult(Call.st)
            \/ /\ Call.st.depth >= 2
               /\ Call.err = "pointer to pointer is not supported"
               /\ Call.dest = EmptyDest

\* cacheFind refused a statement with GROUP BY and the Find returned the rows
\* of the table without error.
C6_RefusedThenDirect ==
  /\ Returned /\ Call.failed /\ Call.nIdQ = 0
  /\ Call.st.tail = <<"GROUP BY">>
  /\ Call.err = "nil"
  /\ Len(Call.dest.seq) = Len(db)

\* C7: a Find into a slice returns the beans in the order the database returns
\* the rows when it is direct, and in the order of the id list when it is
\* cache-assisted, whatever the order of the backfilled rows and whichever ids
\* hit the bean cache.
C7_SliceOrder ==
  (Returned /\ Call.st.destKind = "slice" /\ Call.err = "nil") =>
    /\ Call.path = "direct" => PKs(Call.dest.seq) = PKs(db)
    /\ Call.path = "cache" => PKs(Call.dest.seq) = Call.ids

\* A cache-assisted Find whose backfill returned its two rows in the order
\* opposite to the id list has returned.
C7_BackfillReversed ==
  /\ Returned /\ Call.path = "cache" /\ Call.st.destKind = "slice"
  /\ Len(Call.ides) = 2
  /\ PKs(Call.beans) = Reverse(Call.ides)
  /\ Len(Call.dest.seq) = 2

\* The errors Find reports about the shape of its destination.
ShapeErrors ==
  {"needs a pointer to a slice or a map",
   "pointer to pointer is not supported",
   "don't support multiple primary key's map has non-slice key type",
   "table have multiple primary keys, key is not schemas.PK or slice"}

\* C8: every shape error of Find (no slice or map, pointer to pointer, composite
\* key with a map whose key type is no sequence) is reported before any query
\* runs and before the cache is read or written.
C8_ShapeErrorBeforeIO ==
  (Returned /\ Call.err \in ShapeErrors) =>
    /\ Call.nIdQ = 0 /\ Call.nBackQ = 0 /\ Call.nDirQ = 0
    /\ ~Call.cRead /\ ~Call.cWrite

\* C9: on a table with a composite primary key, a Find into a map whose key
\* type is an array of the key values succeeds and has one entry per row.
C9_CompositeKeyMapSucceeds ==
  (Returned /\ pkCount = 2 /\ Call.st.destKind = "map" /\ Call.st.keyKind = "array"
     /\ Call.st.depth <= 1) =>
    /\ Call.err = "nil"
    /\ Cardinality(DOMAIN Call.dest.map) = Len(db)

\* Two statements are the same query into destinations of different shape.
SameQuery(a, b) ==
  /\ a.distinct = b.distinct /\ a.unscoped = b.unscoped /\ a.tail = b.tail
  /\ a.canCache = b.canCache /\ a.colsEmpty = b.colsEmpty

\* The map mp of key kind kk holds the elements of the slice sl and nothing else.
SliceAndMap(sl, mp, kk) ==
  /\ DOMAIN mp = {KeyOf(kk, sl[j]) : j \in 1..Len(sl)}
  /\ Cardinality(DOMAIN mp) = Len(sl)
  /\ \A j \in 1..Len(sl) : mp[KeyOf(kk, sl[j])] = sl[j]

\* C10: with a single primary key, a Find into a slice and a Find of the same
\* query into a map, with no write in between, give the same beans: the map has
\* one entry per element of the slice, under that element's key, and no other.
C10_SliceAndMapSameBeans ==
  (Returned /\ pkCount = 1 /\ Call.prev.ok /\ SameQuery(Call.st, Call.prev.st)
     /\ Call.err = "nil" /\ Call.prev.err = "nil") =>
    /\ (Call.st.destKind = "slice" /\ Call.prev.st.destKind = "map") =>
         SliceAndMap(Call.dest.seq, Call.prev.dest.map, Call.prev.st.keyKind)
    /\ (Call.st.destKind = "map" /\ Call.prev.st.destKind = "slice") =>
         SliceAndMap(Call.prev.dest.seq, Call.dest.map, Call.st.keyKind)

\* A cache-assisted Find into a map keyed by strings returned two entries
\* right after the Find of the same query into a slice.
C10_MapAfterSlice ==
  /\ Returned /\ pkCount = 1 /\ Call.prev.ok /\ SameQuery(Call.st, Call.prev.st)
  /\ Call.prev.st.destKind = "slice" /\ Call.st.destKind = "map"
  /\ Call.st.keyKind = "string"
  /\ Call.path = "cache"
  /\ Cardinality(DOMAIN Call.dest.map) = 2


(***************************************************************************)
(* Soft delete: a struct with a "deleted" column (session_find.go, lines   *)
(* 122-137; Get and Delete as the tests of the repository use them).       *)
(* A row is "none" (never inserted), "live", "soft" (flagged deleted) or   *)
(* "gone" (removed).                                                       *)
(***************************************************************************)
SdKeys == 2

\* The state of a session that cannot find its table.
FindOff ==
  /\ db = << >> /\ pkCount = 1 /\ hasCacher = FALSE
  /\ idCache = EmptyMap /\ beanCache = EmptyMap
  /\ ses = [s \in Sessions |-> Idle]
  /\ committed = EmptyMap

\* find, lines 96-115: tp is tpStruct unless RefTable is unset and the element
\* type is neither a struct nor a pointer to a struct.
\* find, lines 122-137: the automatic condition excludes the rows flagged
\* deleted.  With a condition bean it is built by BuildConds, otherwise it is
\* CondDeleted of the table's deleted column unless the statement is Unscoped.
DeletedCondIgnoringUnscoped(tp, noAutoCondition, hasCondiBean, unscoped, hasDeletedCol) ==
  tp = "tpStruct" /\ hasDeletedCol

DeletedCond(tp, noAutoCondition, hasCondiBean, unscoped, hasDeletedCol) ==
  IF tp = "tpStruct"
  THEN IF ~noAutoCondition /\ hasCondiBean
         THEN hasDeletedCol /\ ~unscoped      \* Statement.BuildConds
       ELSE hasDeletedCol /\ ~unscoped
  ELSE FALSE

\* The keys of the rows a query returns, with or without the deleted condition.
SdQuery(rows, cond) ==
  {k \in DOMAIN rows : rows[k] = "live" \/ (rows[k] = "soft" /\ ~cond)}

SdCall(rows, op, key, unscoped, tp, before, found, affected) ==
  [pc |-> "on", rows |-> rows, op |-> op, key |-> key, unscoped |-> unscoped, tp |-> tp,
   before |-> before, found |-> found, affected |-> affected]

\* Session.Find on the struct.
sdFind(unscoped, hasCondiBean, noAutoCondition, tp) ==
  /\ sd.pc = "on"
  /\ sd' = [sd EXCEPT !.op = "Find", !.key = 0, !.unscoped = unscoped, !.tp = tp,
                      !.before = sd.rows, !.affected = 0,
                      !.found = SdQuery(sd.rows,
                                        DeletedCond(tp, noAutoCondition, hasCondiBean,
                                                    unscoped, TRUE))]
  /\ UNCHANGED <<findVars, tx, mg, it, cs, rc, hk, ar>>

\* Session.ID(key).Get on the struct.
sdGet(key, unscoped) ==
  /\ sd.pc = "on"
  /\ sd' = [sd EXCEPT !.op = "Get", !.key = key, !.unscoped = unscoped, !.tp = "tpStruct",
                      !.before = sd.rows, !.affected = 0,
                      !.found = SdQuery(sd.rows, ~unscoped) \cap {key}]
  /\ UNCHANGED <<findVars, tx, mg, it, cs, rc, hk, ar>>

\* Session.ID(key).Delete on the struct: an UPDATE of the deleted column of the
\* rows not yet flagged, or with Unscoped a DELETE.
sdDelete(key, unscoped) ==
  /\ sd.pc = "on"
  /\ LET hit == SdQuery(sd.rows, ~unscoped) \cap {key}
     IN sd' = [sd EXCEPT !.op = "Delete", !.key = key, !.unscoped = unscoped,
                         !.tp = "tpStruct", !.before = sd.rows, !.found = {},
                         !.affected = Cardinality(hit),
                         !.rows = [k \in DOMAIN sd.rows |->
                                     IF k \in hit
                                     THEN (IF unscoped THEN "gone" ELSE "soft")
                                     ELSE sd.rows[k]]]
  /\ UNCHANGED <<findVars, tx, mg, it, cs, rc, hk, ar>>

InitSd ==
  /\ FindOff
  /\ \E rows \in [1..SdKeys -> {"none", "live"}] :
       sd = SdCall(rows, "none", 0, FALSE, "tpStruct", rows, {}, 0)
  /\ tx = Off /\ mg = Off /\ it = Off /\ cs = Off /\ rc = Off /\ hk = Off /\ ar = Off

NextSd ==
  \/ \E u \in BOOLEAN, c \in BOOLEAN, n \in BOOLEAN, tp \in {"tpStruct", "tpNonStruct"} :
       sdFind(u, c, n, tp)
  \/ \E k \in 1..SdKeys, u \in BOOLEAN : sdGet(k, u)
  \/ \E k \in 1..SdKeys, u \in BOOLEAN : sdDelete(k, u)

SpecSd == InitSd /\ [][NextSd]_vars

\* The rows of the table that exist, flagged or not.
SdExisting(rows) == {k \in DOMAIN rows : rows[k] \in {"live", "soft"}}

SdLive(rows) == {k \in DOMAIN rows : rows[k] = "live"}

TxResults == 2

\* What Begin, the callback and Commit return in a call.
TxErrors == {"nil", "e1", "e2"}

\* Transaction, lines 1432-1435: the callback failed.
CallbackFailedNever(err) == FALSE

CallbackFailed(err) == err # "nil"

TxIdle ==
  [pc |-> "idle", beginErr |-> "nil", fRes |-> 0, fErr |-> "nil", commitErr |-> "nil",
   begins |-> 0, calls |-> 0, commits |-> 0, open |-> FALSE, closed |-> FALSE,
   result |-> 0, err |-> "nil"]

\* Transaction, lines 1424-1425: the session of the call; what Begin, f and
\* Commit are going to return is fixed here.
Transaction(beginErr, fRes, fErr, commitErr) ==
  /\ tx.pc \in {"idle", "returned"}
  /\ tx' = [TxIdle EXCEPT !.pc = "Begin", !.beginErr = beginErr, !.fRes = fRes,
                          !.fErr = fErr, !.commitErr = commitErr, !.open = TRUE]
  /\ UNCHANGED <<findVars, sd, mg, it, cs, rc, hk, ar>>

\* Transaction, lines 1427-1429: session.Begin.
txBegin ==
  /\ tx.pc = "Begin"
  /\ tx' = IF tx.beginErr # "nil"
           THEN [tx EXCEPT !.begins = @ + 1, !.result = 0, !.err = tx.beginErr,
                           !.pc = "Close"]
           ELSE [tx EXCEPT !.begins = @ + 1, !.pc = "f"]
  /\ UNCHANGED <<findVars, sd, mg, it, cs, rc, hk, ar>>

\* Transaction, lines 1431-1434: the callback.
txCallback ==
  /\ tx.pc = "f"
  /\ tx' = IF CallbackFailed(tx.fErr)
           THEN [tx EXCEPT !.calls = @ + 1, !.result = tx.fRes, !.err = tx.fErr,
                           !.pc = "Close"]
           ELSE [tx EXCEPT !.calls = @ + 1, !.result = tx.fRes, !.pc = "Commit"]
  /\ UNCHANGED <<findVars, sd, mg, it, cs, rc, hk, ar>>

\* Transaction, lines 1436-1440: session.Commit.
txCommit ==
  /\ tx.pc = "Commit"
  /\ tx' = [tx EXCEPT !.commits = @ + 1, !.err = tx.commitErr, !.pc = "Close"]
  /\ UNCHANGED <<findVars, sd, mg, it, cs, rc, hk, ar>>

\* Transaction, line 1425: the deferred session.Close, then the return.
txClose ==
  /\ tx.pc = "Close"
  /\ tx' = [tx EXCEPT !.open = FALSE, !.closed = TRUE, !.pc = "returned"]
  /\ UNCHANGED <<findVars, sd, mg, it, cs, rc, hk, ar>>

InitTx ==
  /\ FindOff
  /\ tx = TxIdle
  /\ sd = Off /\ mg = Off /\ it = Off /\ cs = Off /\ rc = Off /\ hk = Off /\ ar = Off

NextTx ==
  \/ \E b \in {"nil", "e1"}, r \in 0..TxResults, e \in TxErrors, c \in {"nil", "e2"} :
       Transaction(b, r, e, c)
  \/ txBegin
  \/ txCallback
  \/ txCommit
  \/ txClose

SpecTx == InitTx /\ [][NextTx]_vars

\* C12: after Begin succeeded, Commit is called exactly when the callback
\* returned a nil error, and at most once; when the callback returned an error,
\* Commit is not called and the result and the error of the callback are
\* returned as they are; the session is closed whenever Transaction returns.
C12_CommitIffCallbackNil ==
  /\ tx.commits <= 1 /\ tx.calls <= 1 /\ tx.begins <= 1
  /\ tx.pc \in {"Begin", "f", "Commit", "Close"} => tx.open /\ ~tx.closed
  /\ tx.pc = "returned" =>
       /\ tx.closed /\ ~tx.open
       /\ tx.begins = 1
       /\ tx.calls = (IF tx.beginErr = "nil" THEN 1 ELSE 0)
       /\ tx.commits = (IF tx.beginErr = "nil" /\ tx.fErr = "nil" THEN 1 ELSE 0)
       /\ tx.beginErr # "nil" => tx.result = 0 /\ tx.err = tx.beginErr
       /\ (tx.beginErr = "nil" /\ tx.fErr # "nil") =>
            tx.result = tx.fRes /\ tx.err = tx.fErr
       /\ (tx.beginErr = "nil" /\ tx.fErr = "nil") =>
            tx.result = tx.fRes /\ tx.err = tx.commitErr

\* A call whose callback returned a result and an error has returned them,
\* with the session closed.
C12_CallbackErrorReturned ==
  /\ tx.pc = "returned" /\ tx.beginErr = "nil"
  /\ tx.fErr = "e1" /\ tx.fRes = 2
  /\ tx.err = "e1" /\ tx.result = 2
  /\ tx.commits = 0 /\ tx.closed


(***************************************************************************)
(* Migrations (package migrate).  A Migrate object holds the declared      *)
(* migrations, each with an ID, a Migrate function and possibly a Rollback *)
(* function; the migrations table holds the recorded IDs, its id column is *)
(* the primary key.  The IDs of the declared migrations are distinct; one  *)
(* of them may be empty.  A function of a migration succeeds or fails.     *)
(***************************************************************************)
MaxMigs == 3

MaxCalls == 4

\* The ID of the i-th declared migration.
MigID(i) == ToString(i)

\* The declarations: n migrations, the e-th with an empty ID (none if e = 0).
Migrations(n, e, rollbacks) ==
  [i \in 1..n |-> [id |-> IF i = e THEN "" ELSE MigID(i), rollback |-> rollbacks[i]]]

Event(e, i) == [e |-> e, i |-> i]

MgIdle(migs, initSchema) ==
  [pc |-> "idle", migrations |-> migs, initSchema |-> initSchema,
   table |-> {}, created |-> FALSE,
   call |-> "none", i |-> 0, err |-> "nil",
   \* history of the call in progress and of the calls so far
   before |-> {}, log |-> << >>, calls |-> 0, reExecuted |-> FALSE,
   full |-> FALSE, undone |-> << >>]

\* migrationDidRun: the ID is in the migrations table.
MigrationDidRunNever(mig, table) == FALSE

MigrationDidRun(mig, table) == mig.id \in table

\* isFirstRun: the migrations table has no row.
IsFirstRun(table) == Cardinality(table) = 0

\* Migrate, lines 97-99: the schema is initialized instead of migrating.
RunsInitSchemaAlways(initSchema, table) == initSchema

RunsInitSchema(initSchema, table) == initSchema /\ IsFirstRun(table)

\* runMigration, lines 170-172.
MissingID(mig) == Len(mig.id) = 0

\* getLastRunnedMigration: the index of the last declared migration that is
\* recorded, 0 when there is none.
LastRunnedFirst(migs, table) ==
  IF \E i \in 1..Len(migs) : MigrationDidRun(migs[i], table)
  THEN CHOOSE i \in 1..Len(migs) :
         /\ MigrationDidRun(migs[i], table)
         /\ \A j \in 1..(i - 1) : ~MigrationDidRun(migs[j], table)
  ELSE 0

LastRunned(migs, table) ==
  IF \E i \in 1..Len(migs) : MigrationDidRun(migs[i], table)
  THEN CHOOSE i \in 1..Len(migs) :
         /\ MigrationDidRun(migs[i], table)
         /\ \A j \in (i + 1)..Len(migs) : ~MigrationDidRun(migs[j], table)
  ELSE 0

\* A call of Migrate or RollbackLast returns.
MgReturn(m, err) ==
  [m EXCEPT !.pc = "returned", !.err = err,
            !.full = IF m.call = "Migrate"
                     THEN err = "nil" /\ \A i \in 1..Len(m.migrations) :
                                           m.migrations[i].id \in m.table
                     ELSE m.full /\ err = "nil"]

\* The loop of Migrate or of runInitSchema goes to its next migration.
MgNext(m) ==
  IF m.i < Len(m.migrations) THEN [m EXCEPT !.i = @ + 1] ELSE MgReturn(m, "nil")

\* Migrate, lines 88-100: the migrations table is created if it is missing,
\* then the first run is told from a later one.
Migrate ==
  /\ mg.pc \in {"idle", "returned"}
  /\ mg.calls < MaxCalls
  /\ LET m == [mg EXCEPT !.call = "Migrate", !.created = TRUE, !.calls = @ + 1,
                         !.before = mg.table, !.log = << >>, !.err = "nil",
                         !.i = 1, !.undone = << >>]
     IN mg' = IF RunsInitSchema(m.initSchema, m.table)
              THEN [m EXCEPT !.pc = "runInitSchema"]
              ELSE IF Len(m.migrations) = 0 THEN MgReturn(m, "nil")
              ELSE [m EXCEPT !.pc = "runMigration"]
  /\ UNCHANGED <<findVars, sd, tx, it, cs, rc, hk, ar>>

\* runInitSchema, lines 156-158: the InitSchema function.
runInitSchema(ok) ==
  /\ mg.pc = "runInitSchema"
  /\ LET m == [mg EXCEPT !.log = Append(@, Event("initSchema", 0))]
     IN mg' = IF ~ok THEN MgReturn(m, "initSchema failed")
              ELSE IF Len(m.migrations) = 0 THEN MgReturn(m, "nil")
              ELSE [m EXCEPT !.pc = "insertMigration"]
  /\ UNCHANGED <<findVars, sd, tx, it, cs, rc, hk, ar>>

\* runInitSchema, lines 160-164: one turn of the loop that records every ID.
insertMigration ==
  /\ mg.pc = "insertMigration"
  /\ LET id == mg.migrations[mg.i].id
     IN mg' = IF id \in mg.table THEN MgReturn(mg, "insert failed")
              ELSE MgNext([mg EXCEPT !.table = @ \cup {id},
                                     !.log = Append(@, Event("record", mg.i))])
  /\ UNCHANGED <<findVars, sd, tx, it, cs, rc, hk, ar>>

\* Migrate, lines 101-105, and runMigration: one turn of the loop.
runMigration(ok) ==
  /\ mg.pc = "runMigration"
  /\ LET mig == mg.migrations[mg.i]
         ran == [mg EXCEPT !.log = Append(@, Event("migrate", mg.i)),
                           !.reExecuted = @ \/ mig.id \in mg.table]
     IN mg' = IF MissingID(mig) THEN MgReturn(mg, "ErrMissingID")
              ELSE IF MigrationDidRun(mig, mg.table) THEN MgNext(mg)
              ELSE IF ~ok THEN MgReturn(ran, "migrate failed")
              ELSE IF mig.id \in mg.table THEN MgReturn(ran, "insert failed")
              ELSE MgNext([ran EXCEPT !.table = @ \cup {mig.id},
                                      !.log = Append(@, Event("record", mg.i))])
  /\ UNCHANGED <<findVars, sd, tx, it, cs, rc, hk, ar>>

\* RollbackLast, lines 110-120, and RollbackMigration, lines 138-140.
RollbackLast ==
  /\ mg.pc \in {"idle", "returned"}
  /\ mg.calls < MaxCalls
  /\ LET m == [mg EXCEPT !.call = "RollbackLast", !.calls = @ + 1,
                         !.before = mg.table, !.log = << >>, !.err = "nil",
                         !.i = LastRunned(mg.migrations, mg.table)]
     IN mg' = IF Len(m.migrations) = 0 THEN MgReturn(m, "ErrNoMigrationDefined")
              ELSE IF m.i = 0 THEN MgReturn(m, "ErrNoRunnedMigration")
              ELSE IF ~m.migrations[m.i].rollback THEN MgReturn(m, "ErrRollbackImpossible")
              ELSE [m EXCEPT !.pc = "Rollback"]
  /\ UNCHANGED <<findVars, sd, tx, it, cs, rc, hk, ar>>

\* RollbackMigration, lines 142-152: the Rollback function, then the DELETE.
RollbackMigration(ok) ==
  /\ mg.pc = "Rollback"
  /\ LET m == [mg EXCEPT !.log = Append(@, Event("rollback", mg.i))]
     IN mg' = IF ~ok THEN MgReturn(m, "rollback failed")
              ELSE MgReturn([m EXCEPT !.table = @ \ {m.migrations[m.i].id},
                                      !.log = Append(@, Event("unrecord", m.i)),
                                      !.undone = Append(@, m.i)], "nil")
  /\ UNCHANGED <<findVars, sd, tx, it, cs, rc, hk, ar>>

InitMg ==
  /\ FindOff
  /\ \E n \in 0..MaxMigs, s \in BOOLEAN :
       \E e \in 0..n, r \in [1..n -> BOOLEAN] :
         mg = MgIdle(Migrations(n, e, r), s)
  /\ sd = Off /\ tx = Off /\ it = Off /\ cs = Off /\ rc = Off /\ hk = Off /\ ar = Off

NextMg ==
  \/ Migrate
  \/ \E ok \in BOOLEAN : runInitSchema(ok)
  \/ insertMigration
  \/ \E ok \in BOOLEAN : runMigration(ok)
  \/ RollbackLast
  \/ \E ok \in BOOLEAN : RollbackMigration(ok)

SpecMg == InitMg /\ [][NextMg]_vars


\* The events of one kind in the history of the call, and their migrations.
Events(e) == SelectSeq(mg.log, LAMBDA x : x.e = e)

Indices(events) == [k \in 1..Len(events) |-> events[k].i]

Declared == [i \in 1..Len(mg.migrations) |-> i]

\* The declared migrations that were not recorded when the call began.
Unrecorded == SelectSeq(Declared, LAMBDA i : mg.migrations[i].id \notin mg.before)

IsPrefix(s, t) == Len(s) <= Len(t) /\ \A k \in 1..Len(s) : s[k] = t[k]

MgReturned(call) == mg.pc = "returned" /\ mg.call = call

\* Every record of the call directly follows the run of the Migrate function
\* of the same migration, and every such run but a failed one is followed by
\* the record.
RecordedRightAfterRun ==
  \A k \in 1..Len(mg.log) :
    /\ mg.log[k].e = "record" =>
         k > 1 /\ mg.log[k - 1] = Event("migrate", mg.log[k].i)
    /\ mg.log[k].e = "migrate" /\ k < Len(mg.log) =>
         mg.log[k + 1] = Event("record", mg.log[k].i)

MigratesInOrder ==
  /\ ~mg.reExecuted
  /\ IsPrefix(Indices(Events("migrate")), Unrecorded)
  /\ RecordedRightAfterRun
  /\ MgReturned("Migrate") /\ mg.err = "nil" =>
       /\ Indices(Events("migrate")) = Unrecorded
       /\ Indices(Events("record")) = Unrecorded
       /\ \A i \in 1..Len(mg.migrations) : mg.migrations[i].id \in mg.table

\* C13 as stated: every call of Migrate runs, in declaration order, exactly
\* the migrations whose ID is not recorded, records each ID right after its
\* function succeeded, never runs a recorded migration, and when it returns
\* nil every declared ID is recorded.
C13_MigrateRunsUnrecorded ==
  mg.call = "Migrate" => MigratesInOrder

\* C13: a call of Migrate that does not initialize the schema (no InitSchema
\* function, or a migrations table that is not empty) runs, in declaration
\* order, exactly the migrations whose ID is not recorded, records each ID
\* right after its function succeeded, never runs a recorded migration, and
\* when it returns nil every declared ID is recorded once.
C13_MigrateRunsUnrecordedUnlessInit ==
  mg.call = "Migrate" /\ ~RunsInitSchema(mg.initSchema, mg.before) => MigratesInOrder

C13_SecondMigrateRunsTheRest ==
  /\ MgReturned("Migrate") /\ mg.err = "nil"
  /\ mg.before # {}
  /\ Len(Events("migrate")) >= 1
  /\ Len(Events("migrate")) < Len(mg.migrations)

\* The last of a set of migrations.
Last(S) == IF S = {} THEN 0 ELSE CHOOSE i \in S : \A j \in S : j <= i

RecordedBefore == {i \in 1..Len(mg.migrations) : mg.migrations[i].id \in mg.before}

C15_InitSchemaOnFirstRunOnly ==
  mg.call = "Migrate" =>
    IF mg.initSchema /\ mg.before = {}
    THEN /\ Len(Events("initSchema")) <= 1
         /\ Events("migrate") = << >>
         /\ MgReturned("Migrate") =>
              /\ Len(Events("initSchema")) = 1
              /\ mg.err = "nil" =>
                   /\ Indices(Events("record")) = Declared
                   /\ \A i \in 1..Len(mg.migrations) : mg.migrations[i].id \in mg.table
    ELSE Events("initSchema") = << >>

C15_SchemaInitialized ==
  /\ MgReturned("Migrate") /\ mg.err = "nil"
  /\ mg.initSchema /\ mg.before = {}
  /\ Len(mg.migrations) >= 2
  /\ Cardinality(mg.table) = Len(mg.migrations)

EmptyIDs == {i \in 1..Len(mg.migrations) : mg.migrations[i].id = ""}

\* C16: Migrate stops at the first migration that fails: a call with a
\* migration of empty ID returns an error, ErrMissingID unless the function
\* of an earlier migration failed, it neither runs the function of that
\* migration nor records anything for it, and it runs and records no
\* migration declared after it.
C16_EmptyIDStopsMigrate ==
  MgReturned("Migrate") /\ EmptyIDs # {} =>
    LET e == CHOOSE i \in EmptyIDs : TRUE
    IN /\ mg.err # "nil"
       /\ mg.err = "ErrMissingID" \/ \E k \in 1..Len(mg.log) : mg.log[k].i < e
       /\ "" \notin mg.table
       /\ \A k \in 1..Len(mg.log) : mg.log[k].i < e

C16_EmptyIDRecorded ==
  /\ MgReturned("Migrate") /\ mg.err = "nil"
  /\ "" \in mg.table


(***************************************************************************)
(* Iterate.  The table holds the rows 1..n in the order of the query; the  *)
(* statement carries the buffer size, the limit (NoLimit when LimitN is    *)
(* nil) and the offset Start; the callback fails at the record of index    *)
(* failAt, or never when failAt is NoFail.                                  *)
(***************************************************************************)
MaxRows == 4

MaxBuffer == 3

MaxLimit == 3

MaxStart == 2

NoLimit == 0 - 1

NoFail == 0 - 1

Min(a, b) == IF a < b THEN a ELSE b

\* The rows of SELECT ... LIMIT limit OFFSET start over n rows.
Query(n, limit, start) ==
  LET len == IF start >= n THEN 0
             ELSE IF limit = NoLimit THEN n - start
             ELSE Min(limit, n - start)
  IN [k \in 1..len |-> start + k]

ItIdle(n, bufferSize, limitN, start, failAt) ==
  [pc |-> "idle", n |-> n, BufferSize |-> bufferSize, LimitN |-> limitN,
   Start |-> start, failAt |-> failAt,
   bufferSize |-> 0, start |-> 0, idx |-> 0, rows |-> << >>,
   delivered |-> << >>, pages |-> << >>, err |-> "nil"]

\* The callback is run on the records of a slice, in order, from index idx,
\* up to the first record on which it fails.
Callbacks(c, slice) ==
  LET fails == c.failAt # NoFail /\ c.idx <= c.failAt /\ c.failAt < c.idx + Len(slice)
      len == IF fails THEN c.failAt - c.idx + 1 ELSE Len(slice)
  IN [c EXCEPT !.delivered = @ \o [k \in 1..len |-> <<c.idx + k - 1, slice[k]>>],
               !.idx = IF fails THEN c.failAt ELSE @ + len,
               !.err = IF fails THEN "callback failed" ELSE @]

\* bufferIterate, lines 105-107: the size of the next page under a limit.
NextBufferSize(c, start) ==
  IF c.LimitN # NoLimit /\ start + c.bufferSize > c.LimitN
  THEN c.LimitN - start
  ELSE c.bufferSize

\* Iterate, lines 25-49, and bufferIterate, lines 73-81.
Iterate ==
  /\ it.pc = "idle"
  /\ it' = IF it.BufferSize > 0
           THEN LET b == IF it.LimitN # NoLimit /\ it.BufferSize > it.LimitN
                         THEN it.LimitN ELSE it.BufferSize
                IN [it EXCEPT !.pc = IF b > 0 THEN "bufferIterate" ELSE "done",
                              !.bufferSize = b, !.start = it.Start]
           ELSE [it EXCEPT !.pc = "rows",
                           !.rows = Query(it.n, it.LimitN, it.Start)]
  /\ UNCHANGED <<findVars, sd, tx, mg, cs, rc, hk, ar>>

\* Iterate, lines 50-63: one turn of the loop over the rows.
rowsNext ==
  /\ it.pc = "rows"
  /\ it' = IF it.rows = << >> THEN [it EXCEPT !.pc = "done"]
           ELSE LET c == Callbacks(it, <<Head(it.rows)>>)
                IN IF c.err # "nil" THEN [c EXCEPT !.pc = "done"]
                   ELSE [c EXCEPT !.rows = Tail(@)]
  /\ UNCHANGED <<findVars, sd, tx, mg, cs, rc, hk, ar>>

\* bufferIterate, lines 87-108: one turn of the loop over the pages.
bufferIterate ==
  /\ it.pc = "bufferIterate"
  /\ LET slice == Query(it.n, it.bufferSize, it.start)
         c == Callbacks([it EXCEPT !.pages = Append(@, <<it.bufferSize, it.start>>)], slice)
         start == it.start + Len(slice)
         b == NextBufferSize(c, start)
     IN it' = IF c.err # "nil" THEN [c EXCEPT !.pc = "done"]
              ELSE IF it.bufferSize > Len(slice) THEN [c EXCEPT !.pc = "done"]
              ELSE [c EXCEPT !.start = start, !.bufferSize = b,
                             !.pc = IF b > 0 THEN "bufferIterate" ELSE "done"]
  /\ UNCHANGED <<findVars, sd, tx, mg, cs, rc, hk, ar>>

InitIt ==
  /\ FindOff
  /\ \E n \in 0..MaxRows, b \in 0..MaxBuffer, l \in {NoLimit} \cup 1..MaxLimit,
        s \in 0..MaxStart, f \in {NoFail} \cup 0..1 :
       it = ItIdle(n, b, l, s, f)
  /\ sd = Off /\ tx = Off /\ mg = Off /\ cs = Off /\ rc = Off /\ hk = Off /\ ar = Off

NextIt ==
  \/ Iterate
  \/ rowsNext
  \/ bufferIterate

SpecIt == InitIt /\ [][NextIt]_vars

\* What Iterate without a buffer delivers: the rows after the offset, up to
\* the limit, with the indices 0, 1, 2, ..., up to the first callback error.
Expected ==
  LET rows == Query(it.n, it.LimitN, it.Start)
      len == IF it.failAt # NoFail /\ it.failAt < Len(rows)
             THEN it.failAt + 1 ELSE Len(rows)
  IN [k \in 1..len |-> <<k - 1, rows[k]>>]

\* C17: Iterate with a buffer size above 0 delivers the records that Iterate
\* without a buffer delivers for the same limit and offset, with consecutive
\* indices: min(limit, rows after the offset) records, read page by page at
\* consecutive offsets, up to the first callback error.
C17_BufferedSameAsUnbuffered ==
  it.pc = "done" =>
    /\ it.delivered = Expected
    /\ \A k \in 1..Len(it.pages) :
         it.pages[k][2] = IF k = 1 THEN it.Start
                          ELSE it.pages[k - 1][2] + it.pages[k - 1][1]

C17_BufferedStopsShort ==
  /\ it.pc = "done" /\ it.BufferSize > 0 /\ it.err = "nil"
  /\ Len(it.delivered) < Len(Expected)


(***************************************************************************)
(* Two struct types mapped to the same table, and rows deleted meanwhile.  *)
(* One goroutine issues Finds into slices and maps of T and into slices of *)
(* U, both types naming the table t; the other deletes rows.               *)
(***************************************************************************)
\* Delete: the DELETE statement removes the row.
Delete(s, pk) ==
  /\ ses[s].pc = "idle"
  /\ HasRow(pk)
  /\ db' = SelectSeq(db, LAMBDA r : r.pk # pk)
  /\ SetW(s, [ses[s] EXCEPT !.pc = "cacheDelete", !.wkey = pk])
  /\ UNCHANGED <<pkCount, hasCacher, idCache, beanCache, committed>>
  /\ UNCHANGED otherVars

\* Delete: the id lists of the table and the bean of the row are removed from
\* the cache, then Delete returns.
cacheDelete(s) ==
  /\ ses[s].pc = "cacheDelete"
  /\ idCache' = (IF hasCacher THEN ClearIds ELSE idCache)
  /\ beanCache' = (IF hasCacher THEN DelBean(beanCache, PKToString(ses[s].wkey)) ELSE beanCache)
  /\ Set(s, [Idle EXCEPT !.prev = ses[s].prev])
  /\ UNCHANGED <<db, pkCount, hasCacher, committed>>
  /\ UNCHANGED otherVars

\* The statement st with elements of the struct type base.
OfType(st, base) == [st EXCEPT !.base = base]

TypedStmts ==
  {OfType(Stmt("slice", dp, "int", FALSE, FALSE, FALSE, TRUE, TRUE, << >>), b) :
     dp \in {0, 1}, b \in {"T", "U"}}
    \cup {Plain("map", "int")}

InitDel == InitWith([n \in {1} |-> SeqTables(n)], {1}, {TRUE})

NextDel ==
  \/ \E s \in Readers :
       \/ \E st \in TypedStmts : Find(s, st)
       \/ CacheFindSteps(s)
       \/ Return(s, TRUE)
  \/ \E s \in Writers :
       \/ \E i \in 1..SeqKeys : Delete(s, MkPK(pkCount, i))
       \/ cacheDelete(s)

SpecDel == InitDel /\ [][NextDel]_vars

\* The bean the cache holds for the id the loop of per-id resolution is at.
BeanAtHand ==
  IF Call.pc = "getBean" /\ Call.idx < Len(Call.ids)
  THEN MapGet(beanCache, PKToString(Call.ids[Call.idx + 1]), NilBean)
  ELSE NilBean

\* A cached bean whose type is neither the element type nor, for an element
\* type that is a pointer, the type it points to.
OtherType(bean, st) == bean # NilBean /\ bean.typ # st.base

\* C18: when per-id resolution meets a cached bean of another concrete type
\* than the element type, the call leaves the cache path with ErrCacheFailed
\* and goes on with the direct query; the entry is not handled as a miss.
C18_OtherTypeAbandonsCache ==
  [][(Call.pc = "getBean" /\ OtherType(BeanAtHand, Call.st) /\ ses'["s1"] # Call) =>
       /\ ses'["s1"].failed
       /\ ses'["s1"].pc \in {"noCacheFind", "done"}
       /\ ses'["s1"].ides = Call.ides]_vars

\* A Find into a slice of U, right after a Find into a slice of T cached the
\* beans, returned on the cache path after one backfill query.
C18_OtherTypeBackfilled ==
  /\ Returned /\ Call.path = "cache" /\ ~Call.failed /\ Call.err = "nil"
  /\ Call.prev.ok /\ Call.prev.path = "cache" /\ Call.prev.st.base # Call.st.base
  /\ Call.prev.dest.seq # << >>
  /\ Call.nIdQ = 0 /\ Call.nBackQ = 1
  /\ Call.dest.seq # << >>
  /\ \A j \in 1..Len(Call.dest.seq) : Call.dest.seq[j].typ = Call.st.base

\* The ids of the id list for which the cache or the backfill gave a bean.
Resolved ==
  SelectSeq(Call.ids, LAMBDA id : id \notin Range(Call.ides) \/ id \in Range(PKs(Call.beans)))

\* C19: a cache-assisted Find whose id list holds an id for which neither the
\* bean cache nor the backfill query gave a bean skips that id: it returns a
\* nil error and the beans of the other ids, in the order of the id list.
C19_UnresolvedIdSkipped ==
  (Returned /\ Call.path = "cache" /\ ~Call.failed) =>
    /\ Call.err = "nil"
    /\ Call.st.destKind = "slice" =>
         PKs(Call.dest.seq) = Resolved
    /\ Call.st.destKind = "map" =>
         DOMAIN Call.dest.map = {id[1] : id \in Range(Resolved)}

C19_DeletedRowSkipped ==
  /\ Returned /\ Call.path = "cache" /\ Call.err = "nil"
  /\ Call.st.destKind = "slice"
  /\ Len(Call.ids) = 2
  /\ Len(Call.dest.seq) = 1
  /\ Call.dest.seq[1].pk = Call.ids[2]


(***************************************************************************)
(* The column plan of a query (ParseColumnsSchema).  The driver reports    *)
(* the names of the result columns; the table descriptor holds the columns *)
(* of the struct in the order of its fields.  A column descriptor is known *)
(* by its position in the table, NoColumn is the nil descriptor.           *)
(***************************************************************************)
MaxCols == 3

MaxFields == 3

NoColumn == 0

\* The names the driver may report, and the names of the table's columns.
FieldNames == {"id", "ID", "Id", "name", "Name"}

ColumnNames == {"id", "name"}

\* strings.ToLower on a column name.
LowerName(name) ==
  CASE name \in {"id", "ID", "Id"} -> "id"
    [] name \in {"name", "Name"} -> "name"
    [] OTHER -> name

SeqsUpTo(S, n) == UNION {[1..k -> S] : k \in 0..n}

\* Table.GetColumnIdx(name, idx): the idx-th of the table's columns of that
\* name, compared without case, or nil.
GetColumnIdx(table, name, idx) ==
  LET cols == SelectSeq([c \in 1..Len(table.columns) |-> c],
                        LAMBDA c : LowerName(table.columns[c]) = LowerName(name))
  IN IF idx < Len(cols) THEN cols[idx + 1] ELSE NoColumn

\* ParseColumnsSchema, lines 191-198.
QueryedField(fieldName) ==
  [FieldName |-> fieldName, LowerFieldName |-> LowerName(fieldName),
   TempIndex |-> 0, ColumnSchema |-> NoColumn]

\* ParseColumnsSchema, lines 207 and 213: the key of tempMap.
TempKeyWithCase(field) == field.FieldName

TempKey(field) == field.LowerFieldName

CsIdle(fieldNames, table) ==
  [pc |-> "idle", fieldNames |-> fieldNames, table |-> table,
   Fields |-> << >>, tempMap |-> EmptyMap, i |-> 0]

\* ParseColumnsSchema, lines 186-202.
ParseColumnsSchema ==
  /\ cs.pc = "idle"
  /\ cs' = [cs EXCEPT !.Fields = [k \in 1..Len(cs.fieldNames) |-> QueryedField(cs.fieldNames[k])],
                      !.tempMap = EmptyMap, !.i = 1, !.pc = "TempIndex"]
  /\ UNCHANGED <<findVars, sd, tx, mg, it, rc, hk, ar>>

\* ParseColumnsSchema, lines 203-215: one turn of the loop over the fields,
\* and lines 217-221 after the last.
TempIndex ==
  /\ cs.pc = "TempIndex"
  /\ IF cs.i > Len(cs.Fields)
       THEN cs' = [cs EXCEPT !.pc = IF cs.table.isNil THEN "done" ELSE "ParseTableSchema"]
       ELSE LET field == cs.Fields[cs.i]
                idx == IF TempKey(field) \notin DOMAIN cs.tempMap THEN 0
                       ELSE cs.tempMap[TempKey(field)] + 1
            IN cs' = [cs EXCEPT !.tempMap = MapPut(@, TempKey(field), idx),
                                !.Fields[cs.i].TempIndex = idx,
                                !.i = @ + 1]
  /\ UNCHANGED <<findVars, sd, tx, mg, it, rc, hk, ar>>

\* ParseTableSchema, lines 180-184.
ParseTableSchema ==
  /\ cs.pc = "ParseTableSchema"
  /\ cs' = [cs EXCEPT !.Fields = [k \in 1..Len(cs.Fields) |->
                                    [cs.Fields[k] EXCEPT !.ColumnSchema =
                                       GetColumnIdx(cs.table, cs.Fields[k].FieldName,
                                                    cs.Fields[k].TempIndex)]],
                      !.pc = "done"]
  /\ UNCHANGED <<findVars, sd, tx, mg, it, rc, hk, ar>>

InitCs ==
  /\ FindOff
  /\ \E names \in SeqsUpTo(FieldNames, MaxCols) :
       \E table \in {[isNil |-> TRUE, columns |-> << >>]}
                      \cup {[isNil |-> FALSE, columns |-> c] : c \in SeqsUpTo(ColumnNames, MaxFields)} :
         cs = CsIdle(names, table)
  /\ sd = Off /\ tx = Off /\ mg = Off /\ it = Off /\ rc = Off /\ hk = Off /\ ar = Off

NextCs ==
  \/ ParseColumnsSchema
  \/ TempIndex
  \/ ParseTableSchema

SpecCs == InitCs /\ [][NextCs]_vars

\* The number of earlier result columns of the same name as the k-th.
Occurrence(k) ==
  Cardinality({j \in 1..(k - 1) : LowerName(cs.fieldNames[j]) = LowerName(cs.fieldNames[k])})

\* The table's columns of the same name as the k-th result column.
SameNamed(k) ==
  {c \in 1..Len(cs.table.columns) :
     LowerName(cs.table.columns[c]) = LowerName(cs.fieldNames[k])}

\* C20: in the column plan the i-th occurrence (from 0, in the order of the
\* result columns, names compared without case) of a column name has the
\* disambiguation index i and is bound to the i-th field of that name of the
\* table descriptor; an occurrence beyond the number of such fields, and any
\* column when there is no table, is unbound.  Two columns of one name are
\* bound in the order of the fields, never crossed.
C20_OccurrenceBindsInOrder ==
  cs.pc = "done" =>
    /\ Len(cs.Fields) = Len(cs.fieldNames)
    /\ \A k \in 1..Len(cs.Fields) :
         LET f == cs.Fields[k]
         IN /\ f.FieldName = cs.fieldNames[k]
            /\ f.TempIndex = Occurrence(k)
            /\ IF cs.table.isNil \/ Occurrence(k) >= Cardinality(SameNamed(k))
               THEN f.ColumnSchema = NoColumn
               ELSE /\ f.ColumnSchema \in SameNamed(k)
                    /\ Cardinality({c \in SameNamed(k) : c < f.ColumnSchema}) = Occurrence(k)
    /\ \A j, k \in 1..Len(cs.Fields) :
         (j < k /\ LowerName(cs.fieldNames[j]) = LowerName(cs.fieldNames[k])
            /\ cs.Fields[k].ColumnSchema # NoColumn) =>
           /\ cs.Fields[j].ColumnSchema # NoColumn
           /\ cs.Fields[j].ColumnSchema < cs.Fields[k].ColumnSchema

C20_TwoIdsBoundInOrder ==
  /\ cs.pc = "done" /\ ~cs.table.isNil
  /\ Len(cs.Fields) = 3
  /\ cs.Fields[1].FieldName = "id" /\ cs.Fields[2].FieldName = "ID"
  /\ cs.Fields[3].FieldName = "Id"
  /\ cs.Fields[1].ColumnSchema # NoColumn
  /\ cs.Fields[2].ColumnSchema > cs.Fields[1].ColumnSchema
  /\ cs.Fields[3].ColumnSchema = NoColumn


(***************************************************************************)
(* Cursors and rows.  A call of Find or of Iterate and the cursors it      *)
(* opens: the ID-resolution query of cacheFind, the query of noCacheFind   *)
(* and the Rows of Iterate.  A deferred Close runs when the function that  *)
(* deferred it returns.  What a query, a scan or a callback does is chosen *)
(* at each step; the container is the caller's slice or map.               *)
(***************************************************************************)
MaxCursorRows == 3

MaxOld == 1

RcIdle ==
  [pc |-> "idle", op |-> "none", destKind |-> "slice", elem |-> "struct",
   before |-> << >>, container |-> << >>, scanned |-> 0,
   open |-> {}, deferred |-> {}, opened |-> 0, err |-> "nil"]

\* The deferred calls of Close, at the return of the function.
RunDeferredNever(open, deferred) == open

RunDeferred(open, deferred) == open \ deferred

\* queryRows returned a cursor and its Close is deferred.
OpenCursor(c, name) ==
  [c EXCEPT !.open = @ \cup {name}, !.deferred = @ \cup {name},
            !.opened = @ + 1, !.scanned = 0]

\* The call returns err to its caller.
RcReturn(c, err) ==
  [c EXCEPT !.pc = "returned", !.err = err,
            !.open = RunDeferred(c.open, c.deferred), !.deferred = {}]

\* cacheFind returns err to find, lines 155-163.
RcCacheFindReturn(c, err) ==
  IF err = "ErrCacheFailed"
  THEN [c EXCEPT !.pc = "noCacheFind",
                 !.open = RunDeferred(c.open, c.deferred), !.deferred = {}]
  ELSE RcReturn(c, err)

\* Find and find, up to the choice between cacheFind and noCacheFind.
rcFind(tryCache, destKind, elem, old) ==
  /\ rc.pc = "idle"
  /\ rc' = [rc EXCEPT !.op = "Find", !.destKind = destKind, !.elem = elem,
                      !.before = [k \in 1..old |-> "old"],
                      !.container = [k \in 1..old |-> "old"],
                      !.pc = IF tryCache THEN "cacheFind" ELSE "noCacheFind"]
  /\ UNCHANGED <<findVars, sd, tx, mg, it, cs, hk, ar>>

\* cacheFind, lines 336-364: the refusals, the lookup of the id list and the
\* ID-resolution query.
rcCacheFind(out) ==
  /\ rc.pc = "cacheFind"
  /\ rc' = CASE out = "refused" -> RcCacheFindReturn(rc, "ErrCacheFailed")
             [] out = "no cacher" -> RcCacheFindReturn(rc, "nil")
             [] out = "hit" -> [rc EXCEPT !.pc = "resolve"]
             [] out = "query failed" -> RcCacheFindReturn(rc, "query failed")
             [] OTHER -> [OpenCursor(rc, "ids") EXCEPT !.pc = "idRows"]
  /\ UNCHANGED <<findVars, sd, tx, mg, it, cs, hk, ar>>

\* cacheFind, lines 366-397: one turn of the loop over the rows of the
\* ID-resolution query, or its end.
rcIdRows(out) ==
  /\ rc.pc = "idRows"
  /\ out = "row" => rc.scanned < MaxCursorRows
  /\ rc' = CASE out = "row" -> [rc EXCEPT !.scanned = @ + 1]
             [] out = "over 500" -> RcCacheFindReturn(rc, "ErrCacheFailed")
             [] out = "scan failed" -> RcCacheFindReturn(rc, "scan failed")
             [] out = "rows.Err" -> RcCacheFindReturn(rc, "rows.Err")
             [] OTHER -> [rc EXCEPT !.pc = "resolve"]
  /\ UNCHANGED <<findVars, sd, tx, mg, it, cs, hk, ar>>

\* cacheFind, lines 402-546: the beans are resolved and put into the container.
rcResolve(out) ==
  /\ rc.pc = "resolve"
  /\ rc' = CASE out = "ErrCacheFailed" -> RcCacheFindReturn(rc, "ErrCacheFailed")
             [] out = "failed" -> RcCacheFindReturn(rc, "backfill failed")
             [] OTHER -> RcCacheFindReturn(
                           [rc EXCEPT !.container = @ \o [k \in 1..rc.scanned |-> "bean"]],
                           "nil")
  /\ UNCHANGED <<findVars, sd, tx, mg, it, cs, hk, ar>>

\* noCacheFind, lines 224-239.
rcNoCacheFind(out) ==
  /\ rc.pc = "noCacheFind"
  /\ rc' = CASE out = "pointer to pointer" -> RcReturn(rc, "pointer to pointer is not supported")
             [] out = "query failed" -> RcReturn(rc, "query failed")
             [] OTHER -> [OpenCursor(rc, "rows") EXCEPT !.pc = "columns"]
  /\ UNCHANGED <<findVars, sd, tx, mg, it, cs, hk, ar>>

\* noCacheFind, lines 241-302: the columns, the check of the key type of a
\* map, the table of the element type.
rcColumns(out) ==
  /\ rc.pc = "columns"
  /\ out = "key type" => rc.destKind = "map"
  /\ out = "ParseWithCache" => rc.elem = "struct"
  /\ rc' = CASE out = "ok" -> [rc EXCEPT !.pc = "rows"]
             [] OTHER -> RcReturn(rc, out)
  /\ UNCHANGED <<findVars, sd, tx, mg, it, cs, hk, ar>>

\* noCacheFind, lines 304-332: one row is scanned into a new element and the
\* element is put into the container, or the rows end.
rcRows(out) ==
  /\ rc.pc = "rows"
  /\ out = "row" => rc.scanned < MaxCursorRows
  /\ out = "AssignValue" => rc.destKind = "map" /\ rc.elem = "struct"
  /\ rc' = CASE out = "row" -> [rc EXCEPT !.scanned = @ + 1,
                                          !.container = Append(@, "bean")]
             [] out = "end" ->
                  RcReturn([rc EXCEPT !.open = IF rc.elem = "struct" THEN @ \ {"rows"} ELSE @],
                           "nil")
             [] OTHER ->
                  RcReturn([rc EXCEPT !.open = IF rc.elem = "struct" THEN @ \ {"rows"} ELSE @],
                           out)
  /\ UNCHANGED <<findVars, sd, tx, mg, it, cs, hk, ar>>

\* Iterate without a buffer, lines 44-48.
rcIterate(ok) ==
  /\ rc.pc = "idle"
  /\ rc' = IF ok THEN [OpenCursor([rc EXCEPT !.op = "Iterate"], "rows") EXCEPT !.pc = "iterate"]
           ELSE RcReturn([rc EXCEPT !.op = "Iterate"], "query failed")
  /\ UNCHANGED <<findVars, sd, tx, mg, it, cs, hk, ar>>

\* Iterate, lines 50-63: one turn of the loop over the rows, or its end.
rcIterateRows(out) ==
  /\ rc.pc = "iterate"
  /\ out = "row" => rc.scanned < MaxCursorRows
  /\ rc' = CASE out = "row" -> [rc EXCEPT !.scanned = @ + 1]
             [] out = "end" -> RcReturn(rc, "nil")
             [] OTHER -> RcReturn(rc, out)
  /\ UNCHANGED <<findVars, sd, tx, mg, it, cs, hk, ar>>

InitRc ==
  /\ FindOff
  /\ rc = RcIdle
  /\ sd = Off /\ tx = Off /\ mg = Off /\ it = Off /\ cs = Off /\ hk = Off /\ ar = Off

NextRc ==
  \/ \E tryCache \in BOOLEAN, dk \in {"slice", "map"}, el \in {"struct", "scalar"},
        old \in 0..MaxOld : rcFind(tryCache, dk, el, old)
  \/ \E out \in {"refused", "no cacher", "hit", "query failed", "open"} : rcCacheFind(out)
  \/ \E out \in {"row", "over 500", "scan failed", "rows.Err", "end"} : rcIdRows(out)
  \/ \E out \in {"ErrCacheFailed", "failed", "ok"} : rcResolve(out)
  \/ \E out \in {"pointer to pointer", "query failed", "open"} : rcNoCacheFind(out)
  \/ \E out \in {"Columns", "ColumnTypes", "key type", "ParseWithCache", "ok"} : rcColumns(out)
  \/ \E out \in {"row", "scan failed", "AssignValue", "rows.Err", "end"} : rcRows(out)
  \/ \E ok \in BOOLEAN : rcIterate(ok)
  \/ \E out \in {"row", "scan failed", "callback failed", "end"} : rcIterateRows(out)

SpecRc == InitRc /\ [][NextRc]_vars

\* C21: a Find that returns the error of a row that did not scan or convert
\* leaves the caller's container as it was before the call: no row of the
\* failing query has been appended to it or inserted into it.
C21_NoPartialResults ==
  (rc.pc = "returned" /\ rc.op = "Find" /\ rc.err \in {"scan failed", "AssignValue"}) =>
    rc.container = rc.before

C21_RowsBeforeTheFailureKept ==
  /\ rc.pc = "returned" /\ rc.op = "Find" /\ rc.err = "scan failed"
  /\ rc.elem = "scalar"
  /\ Len(rc.container) = Len(rc.before) + 2

\* C22: when Find or Iterate has returned, every cursor it opened is closed:
\* the one of the ID-resolution query of cacheFind, the one of noCacheFind
\* and the one of Iterate, also after a scan error, after the 500-id cap and
\* after a callback error.
C22_CursorsClosedAtReturn ==
  /\ rc.pc = "returned" => rc.open = {}
  /\ rc.pc = "noCacheFind" => rc.open = {}
  /\ Cardinality(rc.open) <= 1

C22_TwoCursorsClosed ==
  /\ rc.pc = "returned" /\ rc.op = "Find"
  /\ rc.opened = 2
  /\ rc.err = "scan failed"
  /\ rc.open = {}


(***************************************************************************)
(* Two goroutines, each with its session, issue the same Find on the same  *)
(* engine; nothing is written.                                             *)
(***************************************************************************)
InitTwo == InitWith([n \in {1} |-> SeqTables(n)], {1}, {TRUE})

NextTwo ==
  \E s \in Sessions :
    \/ \E st \in ConcStmts : Find(s, st)
    \/ CacheFindSteps(s)
    \/ Return(s, FALSE)

SpecTwo == InitTwo /\ [][NextTwo]_vars

\* The beans of the rows of the table, in the order of the query.
BeansOfTable(base) == [j \in 1..Len(db) |-> Bean(base, db[j])]

\* C23: when two sessions run the same cache-assisted Find at the same time
\* on a cold cache, whatever the interleaving, each call returns a nil error
\* and the beans of all the rows in the order of the query, on the cache
\* path, and the cache holds under each key one bean, the bean of that row.
C23_ConcurrentFindsBothCorrect ==
  /\ \A s \in Sessions :
       ses[s].pc = "done" =>
         /\ ses[s].err = "nil" /\ ~ses[s].failed /\ ses[s].path = "cache"
         /\ ses[s].dest.seq = BeansOfTable(ses[s].st.base)
  /\ \A sid \in DOMAIN beanCache :
       \E j \in 1..Len(db) :
         /\ PKToString(db[j].pk) = sid
         /\ beanCache[sid] = Bean("T", db[j])

\* Both sessions missed the same ids on the cold cache, both ran the
\* backfill query and both have returned.
C23_BothBackfilled ==
  /\ \A s \in Sessions :
       /\ ses[s].pc = "done" /\ ses[s].cold
       /\ ses[s].nBackQ = 1 /\ ses[s].nIdQ = 1
       /\ Len(ses[s].dest.seq) = SeqKeys
  /\ Cardinality(DOMAIN beanCache) = SeqKeys


(***************************************************************************)
(* The hooks of Insert of one bean (insertStruct).  The session holds the  *)
(* registered Before and After closures, numbered in registration order;   *)
(* the bean may implement BeforeInsertProcessor and AfterInsertProcessor;  *)
(* afterInsertBeans holds, per bean, the closures to run at Commit.        *)
(***************************************************************************)
MaxClosures == 2

\* afterInsertBeans has no entry for the bean, a nil entry, or closures.
NoEntry == [has |-> FALSE, isNil |-> FALSE, closures |-> << >>]

NilEntry == [has |-> TRUE, isNil |-> TRUE, closures |-> << >>]

Entry(closures) == [has |-> TRUE, isNil |-> FALSE, closures |-> closures]

Closures(kind, n) == [k \in 1..n |-> Event(kind, k)]

HkIdle(nBefore, nAfter, isBefore, isAfter, isAutoCommit, entry) ==
  [pc |-> "idle",
   beforeClosures |-> Closures("before", nBefore),
   afterClosures |-> Closures("after", nAfter),
   isBeforeInsertProcessor |-> isBefore, isAfterInsertProcessor |-> isAfter,
   isAutoCommit |-> isAutoCommit, afterInsertBeans |-> entry,
   entryBefore |-> entry, nAfter |-> nAfter, nBefore |-> nBefore,
   log |-> << >>, executed |-> "no", err |-> "nil"]

\* handleAfterInsertProcessorFunc, line 282: the hooks run now.
RunsAfterHooksAlways(isAutoCommit) == TRUE

RunsAfterHooks(isAutoCommit) == isAutoCommit

\* handleAfterInsertProcessorFunc, lines 281-305.
HandleAfterInsertProcessor(h) ==
  LET ran == [h EXCEPT !.log = @ \o h.afterClosures
                                 \o (IF h.isAfterInsertProcessor
                                     THEN <<Event("AfterInsert", 0)>> ELSE << >>)]
      kept == IF Len(h.afterClosures) > 0
              THEN IF h.afterInsertBeans.has /\ ~h.afterInsertBeans.isNil
                   THEN [h EXCEPT !.afterInsertBeans =
                                     Entry(h.afterInsertBeans.closures \o h.afterClosures)]
                   ELSE [h EXCEPT !.afterInsertBeans = Entry(h.afterClosures)]
              ELSE IF h.isAfterInsertProcessor
                   THEN [h EXCEPT !.afterInsertBeans = NilEntry]
                   ELSE h
      done == IF RunsAfterHooks(h.isAutoCommit) THEN ran ELSE kept
  IN [done EXCEPT !.afterClosures = << >>]

\* insertStruct, lines 250-256.
hkInsertStruct(ok) ==
  /\ hk.pc = "idle"
  /\ hk' = IF ok THEN [hk EXCEPT !.pc = "before"]
           ELSE [hk EXCEPT !.pc = "returned", !.err = "ErrTableNotFound"]
  /\ UNCHANGED <<findVars, sd, tx, mg, it, cs, rc, ar>>

\* insertStruct, lines 258-265: the Before closures, their cleanup, and the
\* bean's BeforeInsert.
hkBeforeProcessors ==
  /\ hk.pc = "before"
  /\ hk' = [hk EXCEPT !.log = @ \o hk.beforeClosures
                              \o (IF hk.isBeforeInsertProcessor
                                  THEN <<Event("BeforeInsert", 0)>> ELSE << >>),
                      !.beforeClosures = << >>,
                      !.pc = "genInsert"]
  /\ UNCHANGED <<findVars, sd, tx, mg, it, cs, rc, ar>>

\* insertStruct, lines 270-279: the columns and the statement.
hkGenInsert(ok) ==
  /\ hk.pc = "genInsert"
  /\ hk' = IF ok THEN [hk EXCEPT !.pc = "exec"]
           ELSE [hk EXCEPT !.pc = "returned", !.err = "GenInsertSQL"]
  /\ UNCHANGED <<findVars, sd, tx, mg, it, cs, rc, ar>>

\* insertStruct, lines 308-354 and 376-381: the INSERT statement is executed;
\* with an auto-increment column whose id the driver does not return, the id
\* is read after it.  A failure returns at once.
hkExec(out) ==
  /\ hk.pc = "exec"
  /\ hk' = CASE out = "exec failed" ->
                  [hk EXCEPT !.pc = "returned", !.err = out, !.executed = "failed"]
             [] out = "no id" ->
                  [hk EXCEPT !.pc = "returned", !.err = out, !.executed = "ok",
                             !.log = Append(@, Event("exec", 0))]
             [] OTHER ->
                  [hk EXCEPT !.pc = "deferred", !.executed = "ok",
                             !.log = Append(@, Event("exec", 0))]
  /\ UNCHANGED <<findVars, sd, tx, mg, it, cs, rc, ar>>

\* insertStruct, lines 356-374 and 383-433: cacheInsert, the version and the
\* id of the bean, then the return, at which the deferred
\* handleAfterInsertProcessorFunc runs.
hkReturn ==
  /\ hk.pc = "deferred"
  /\ hk' = [HandleAfterInsertProcessor(hk) EXCEPT !.pc = "returned"]
  /\ UNCHANGED <<findVars, sd, tx, mg, it, cs, rc, ar>>

InitHk ==
  /\ FindOff
  /\ \E nb \in 0..MaxClosures, na \in 0..MaxClosures, ib \in BOOLEAN, ia \in BOOLEAN,
        ac \in BOOLEAN, e \in {NoEntry, NilEntry, Entry(<<Event("earlier", 1)>>)} :
       hk = HkIdle(nb, na, ib, ia, ac, e)
  /\ sd = Off /\ tx = Off /\ mg = Off /\ it = Off /\ cs = Off /\ rc = Off /\ ar = Off

NextHk ==
  \/ \E ok \in BOOLEAN : hkInsertStruct(ok)
  \/ hkBeforeProcessors
  \/ \E ok \in BOOLEAN : hkGenInsert(ok)
  \/ \E out \in {"exec failed", "no id", "ok"} : hkExec(out)
  \/ hkReturn

SpecHk == InitHk /\ [][NextHk]_vars

\* The positions of the log at which a hook of one kind ran.
HookAt(kinds) == {k \in 1..Len(hk.log) : hk.log[k].e \in kinds}

\* The hooks that Insert has to run before, and after, the statement.
BeforeHooks ==
  Closures("before", hk.nBefore)
    \o (IF hk.isBeforeInsertProcessor THEN <<Event("BeforeInsert", 0)>> ELSE << >>)

AfterHooks ==
  Closures("after", hk.nAfter)
    \o (IF hk.isAfterInsertProcessor THEN <<Event("AfterInsert", 0)>> ELSE << >>)

\* C24: Insert of one bean runs the Before closures in registration order,
\* then BeforeInsert, all before the INSERT statement; the After closures in
\* registration order and then AfterInsert run only after the statement
\* succeeded: by Insert itself in autocommit, while in a transaction Insert
\* runs none of them and records them for the bean in afterInsertBeans; when
\* the statement fails no after-hook runs and nothing is recorded.
C24_HooksAroundInsert ==
  LET exec == HookAt({"exec"})
      after == SelectSeq(hk.log, LAMBDA x : x.e \in {"after", "AfterInsert"})
      before == SelectSeq(hk.log, LAMBDA x : x.e \in {"before", "BeforeInsert"})
  IN /\ \A k \in exec :
          /\ SubSeq(hk.log, 1, k - 1) = BeforeHooks
          /\ \A j \in HookAt({"before", "BeforeInsert"}) : j < k
     /\ \A j \in HookAt({"after", "AfterInsert"}) :
          hk.executed = "ok" /\ hk.isAutoCommit /\ \E k \in exec : k < j
     /\ IsPrefix(before, BeforeHooks)
     /\ hk.pc = "returned" =>
          /\ (hk.executed = "ok" /\ hk.err = "nil" /\ hk.isAutoCommit) =>
               after = AfterHooks /\ hk.afterInsertBeans = hk.entryBefore
          /\ (hk.executed = "ok" /\ hk.err = "nil" /\ ~hk.isAutoCommit) =>
               /\ after = << >>
               /\ hk.nAfter > 0 =>
                    /\ hk.afterInsertBeans.has /\ ~hk.afterInsertBeans.isNil
                    /\ hk.afterInsertBeans.closures =
                         hk.entryBefore.closures \o Closures("after", hk.nAfter)
               /\ (hk.nAfter = 0 /\ hk.isAfterInsertProcessor) => hk.afterInsertBeans.has
          /\ hk.executed # "ok" =>
               after = << >> /\ hk.afterInsertBeans = hk.entryBefore

C24_RecordedInTransaction ==
  /\ hk.pc = "returned" /\ hk.err = "nil" /\ ~hk.isAutoCommit
  /\ hk.nBefore = 2 /\ hk.nAfter = 2
  /\ hk.isBeforeInsertProcessor /\ hk.isAfterInsertProcessor
  /\ Len(hk.afterInsertBeans.closures) = 3


\* No call is in progress in any session.
Quiescent == \A s \in Sessions : ses[s].pc \in {"idle", "done"}

\* C25: whatever the interleaving of an Insert of one session with a
\* cache-assisted Find of another, once both have returned the id list cached
\* for the statement of the Find is absent or holds the key of the inserted
\* row: no id list read before the insert outlives the clearing of the id
\* lists by the insert, of a struct as of a map.
C25_NoIdListOutlivesInsert ==
  Quiescent =>
    \A pk \in Inserted(committed) :
      \A q \in DOMAIN idCache : pk \in Range(idCache[q])

\* The Find and the Insert have returned, and the id list of the Find's
\* statement is cached without the key of the inserted row.
C25_IdListOutlivedInsert ==
  /\ Quiescent
  /\ ses["s1"].pc = "done" /\ ses["s1"].path = "cache"
  /\ Fingerprint(ses["s1"]) \in DOMAIN idCache
  /\ \E pk \in Inserted(committed) : pk \notin Range(idCache[Fingerprint(ses["s1"])])


(***************************************************************************)
(* The cacher of the table is set and removed (Engine.SetCacher) by one    *)
(* goroutine while another issues Finds.                                   *)
(***************************************************************************)
\* Engine.SetCacher(tableName, cacher): nil removes the cacher of the table,
\* another value is a cacher that holds nothing yet.  A call in cacheFind
\* keeps the cacher it has looked up, so a new cacher is set between calls.
SetCacher(cacher) ==
  /\ hasCacher # cacher
  /\ cacher => \A s \in Sessions : ses[s].pc \in {"idle", "done", "cacheFind", "noCacheFind"}
  /\ hasCacher' = cacher
  /\ idCache' = (IF cacher THEN EmptyMap ELSE idCache)
  /\ beanCache' = (IF cacher THEN EmptyMap ELSE beanCache)
  /\ UNCHANGED <<db, pkCount, ses, committed>>
  /\ UNCHANGED otherVars

InitCacher == InitWith([n \in {1} |-> SeqTables(n)], {1}, {TRUE})

NextCacher ==
  \/ \E s \in Readers :
       \/ \E st \in ConcStmts : Find(s, st)
       \/ CacheFindSteps(s)
       \/ noCacheFind(s)
       \/ Return(s, FALSE)
  \/ \E cacher \in BOOLEAN : SetCacher(cacher)

SpecCacher == InitCacher /\ [][NextCacher]_vars

\* C26: when the cacher of the table is removed between the check of find
\* and the lookup of cacheFind, Find still returns the rows of the query: a
\* Find that returns nil has put the bean of every row into the destination.
C26_FindReturnsRowsWithoutCacher ==
  (Returned /\ Call.err = "nil") =>
    Call.dest.seq = BeansOfTable(Call.st.base)

\* find sent the call to cacheFind, cacheFind found no cacher, and the call
\* returned nil with the destination as it was, while the table has rows.
C26_NilWithEmptyDestination ==
  /\ Returned /\ Call.err = "nil"
  /\ Call.path = "none" /\ Call.nDirQ = 0 /\ Call.nIdQ = 0
  /\ Call.dest.seq = << >>
  /\ db # << >>


(***************************************************************************)
(* Keys that the database compares under a collation.  The key column is   *)
(* a string column whose collation ignores case: the keys 2c-1 and 2c are  *)
(* the two spellings of one key, equal for the database and different as   *)
(* canonical strings.  One goroutine issues Finds, another changes the     *)
(* spelling of the key of a row with a statement of its own.               *)
(***************************************************************************)
FillClasses == 2

\* The key as the database compares it.
Collate(pk) == [c \in DOMAIN pk |-> (pk[c] + 1) \div 2]

\* The other spelling of the key.
Respell(pk) == [c \in DOMAIN pk |-> IF pk[c] % 2 = 1 THEN pk[c] + 1 ELSE pk[c] - 1]

\* Tables whose keys are pairwise different for the database.
FillTables ==
  {[j \in 1..Len(t) |-> Row(MkPK(1, 2 * t[j].pk[1] - 1), 1)] : t \in Tables(FillClasses, 1)}

\* UPDATE t SET pk = <other spelling> WHERE pk = <pk>, executed directly.
Respelled(s, pk) ==
  /\ ses[s].pc = "idle"
  /\ \E i \in 1..Len(db) :
       /\ db[i].pk = pk
       /\ db' = [db EXCEPT ![i].pk = Respell(pk)]
  /\ UNCHANGED <<pkCount, hasCacher, idCache, beanCache, ses, committed>>
  /\ UNCHANGED otherVars

\* cacheFind, lines 452-483: the backfill query; the database returns the rows
\* whose key equals, under the collation of the column, one of the ids asked.
cacheFindBackfillCollated(s) ==
  /\ ses[s].pc = "backfill"
  /\ LET f == ses[s]
         asked == {Collate(id) : id \in Range(f.ides)}
         wanted == SelectSeq(db, LAMBDA r : Collate(r.pk) \in asked)
     IN \E rows \in Orders(wanted) :
          Set(s, [f EXCEPT !.nBackQ = @ + 1,
                           !.beans = Materialize([f.st EXCEPT !.destKind = "slice"],
                                                 pkCount, rows).seq,
                           !.idx = 0,
                           !.pc = IF Len(rows) = 0 THEN "compose" ELSE "putBean"])
  /\ UNCHANGED <<db, pkCount, hasCacher, idCache, beanCache, committed>>
  /\ UNCHANGED otherVars

InitFill == InitWith([n \in {1} |-> FillTables], {1}, {TRUE})

NextFill ==
  \/ \E s \in Readers :
       \/ \E st \in ConcStmts : Find(s, st)
       \/ cacheFind(s)
       \/ cacheFindQueryIds(s)
       \/ cacheFindPutCacheSql(s)
       \/ cacheFindGetBean(s)
       \/ cacheFindBackfillCollated(s)
       \/ cacheFindPutBean(s)
       \/ cacheFindCompose(s)
       \/ Return(s, FALSE)
  \/ \E s \in Writers : \E k \in 1..(2 * FillClasses) : Respelled(s, MkPK(1, k))

SpecFill == InitFill /\ [][NextFill]_vars

\* C27: in cacheFind, whatever the id list and the rows the backfill query
\* returns, the bean at position j has the canonical key string of ids[j] and
\* every bean of the bean cache is stored under its own key string; a
\* backfilled row whose key is not among the ids asked takes no other id's
\* position.
C27_BeanAtThePositionOfItsId ==
  /\ \A j \in 1..Len(Call.temps) :
       Call.temps[j] # NilBean =>
         PKToString(IDOfV(Call.temps[j])) = PKToString(Call.ids[j])
  /\ \A sid \in DOMAIN beanCache : PKToString(IDOfV(beanCache[sid])) = sid

\* The bean of a backfilled row whose key string is not among the ids asked
\* has replaced, at the first position, the bean of another id, and the
\* result of the Find lacks that id's row.
C27_FirstPositionOverwritten ==
  /\ Returned /\ Call.err = "nil" /\ Call.path = "cache"
  /\ Len(Call.ids) = 2 /\ Len(db) = 2
  /\ Len(Call.dest.seq) = 1
  /\ Collate(Call.dest.seq[1].pk) # Collate(Call.ids[1])


(***************************************************************************)
(* Statements with a join.  The joined table holds JoinFanout rows for     *)
(* every row of t, so the query of a join statement returns every row of   *)
(* t JoinFanout times, and so does its ID-resolution query; the backfill   *)
(* runs on a fresh statement with the table alone.                         *)
(***************************************************************************)
JoinFanout == 2

\* What GenFindSQL writes after the table name for Join("INNER", "detail", ...).
JoinTail == <<"INNER JOIN", "detail", "ON", "detail.t_pk = t.pk">>

Joined(sqlStr) == \E i \in 1..Len(sqlStr) : sqlStr[i] = "INNER JOIN"

\* session.queryRows: the rows the database returns for sqlStr.
queryRows(sqlStr, table) ==
  IF Joined(sqlStr)
  THEN [j \in 1..(Len(table) * JoinFanout) |-> table[((j - 1) \div JoinFanout) + 1]]
  ELSE table

\* cacheFind, lines 360-392: the ID-resolution query of the rewritten statement.
cacheFindQueryIdsJoined(s) ==
  /\ ses[s].pc = "queryIds"
  /\ LET f == [ses[s] EXCEPT !.nIdQ = @ + 1]
         rows == queryRows(ConvertIDSQL(f.st, pkCount, GenFindSQL(f.st)), db)
     IN IF IdsOverCap(rows) THEN Set(s, CacheFailed(f))
        ELSE Set(s, [f EXCEPT !.ids = ScanIds(rows), !.pc = "putCacheSql"])
  /\ UNCHANGED <<db, pkCount, hasCacher, idCache, beanCache, committed>>
  /\ UNCHANGED otherVars

\* noCacheFind, lines 224-333, on the rows of the statement itself.
noCacheFindJoined(s) ==
  /\ ses[s].pc = "noCacheFind"
  /\ LET f == ses[s]
         r == Materialize(f.st, pkCount, queryRows(GenFindSQL(f.st), db))
     IN IF f.st.depth >= 2
          THEN Set(s, Fail(f, "pointer to pointer is not supported"))
        ELSE Set(s, [f EXCEPT !.nDirQ = @ + 1, !.path = "direct", !.err = r.err,
                              !.dest = [seq |-> f.dest.seq \o r.seq, map |-> r.map @@ f.dest.map],
                              !.pc = "done"])
  /\ UNCHANGED <<db, pkCount, hasCacher, idCache, beanCache, committed>>
  /\ UNCHANGED otherVars

\* Statements into a slice, with and without a join, the cache may answer or not.
JoinStmts ==
  {[Plain("slice", "int") EXCEPT !.tail = tail, !.canCache = canCache] :
     tail \in {<< >>, JoinTail}, canCache \in BOOLEAN}

InitJoin == InitWith([n \in {1} |-> SmallTables(n)], {1}, {TRUE})

\* One session issues Finds; nothing writes.
NextJoin ==
  \E s \in Readers :
    \/ \E st \in JoinStmts : Find(s, st)
    \/ cacheFind(s)
    \/ cacheFindQueryIdsJoined(s)
    \/ cacheFindPutCacheSql(s)
    \/ cacheFindGetBean(s)
    \/ cacheFindBackfill(s)
    \/ cacheFindPutBean(s)
    \/ cacheFindCompose(s)
    \/ noCacheFindJoined(s)
    \/ Return(s, FALSE)

SpecJoin == InitJoin /\ [][NextJoin]_vars

\* The beans a direct materialization of the statement of the call gives.
DirectBeans(f) ==
  Materialize(f.st, pkCount, queryRows(GenFindSQL(f.st), db)).seq

\* C28: with no concurrent writes, a cache-assisted Find into a slice returns
\* the same sequence of beans, in length and order, as the direct
\* materialization of the same statement, on a cold and on a warm cache and
\* for every id list of the ID-resolution query, lists that repeat a primary
\* key included.
C28_CacheFindSameAsDirect ==
  (Returned /\ Call.path = "cache" /\ Call.err = "nil") =>
    Call.dest.seq = DirectBeans(Call)

\* On a cold cache the ID-resolution query of a join statement returned every
\* key JoinFanout times, and the Find returned one bean for every key.
C28_RepeatedKeyReturnedOnce ==
  /\ Returned /\ Call.path = "cache" /\ Call.err = "nil" /\ Call.cold
  /\ db # << >>
  /\ Len(Call.ids) = JoinFanout * Len(db)
  /\ Len(DirectBeans(Call)) = JoinFanout * Len(db)
  /\ Len(Call.dest.seq) = Len(db)


(***************************************************************************)
(* autoResetStatement.  A session runs FindAndCount, Iterate (which hands  *)
(* over to bufferIterate when a buffer size is set) and Insert one after   *)
(* the other; calls that the operation makes fail or not.                  *)
(*   autoResetStatement : the field of the session                         *)
(*   deferred           : the deferred functions of the calls in progress  *)
(*   op, err            : the operation in progress or returned, its error *)
(*   left               : beans still to insert, pages still to read       *)
(*   n                  : operations returned so far                       *)
(***************************************************************************)
MaxOps == 4

MaxBeans == 2

MaxPages == 2

ArIdle ==
  [pc |-> "idle", autoResetStatement |-> TRUE, deferred |-> << >>,
   op |-> "none", err |-> "nil", left |-> 0, n |-> 0]

\* The operation returns: its deferred functions, and those of its caller
\* when the caller returns what it got, set the field back.
ArReturn(a, err) ==
  [a EXCEPT !.pc = "returned", !.err = err, !.deferred = << >>,
            !.autoResetStatement = IF a.deferred # << >> THEN TRUE ELSE @]

ArStart(a, op) == [a EXCEPT !.op = op, !.err = "nil", !.autoResetStatement = FALSE]

\* FindAndCount, lines 37-42: no function is deferred for the field.
arFindAndCount ==
  /\ ar.pc = "idle" /\ ar.n < MaxOps
  /\ ar' = [ArStart(ar, "FindAndCount") EXCEPT !.pc = "find"]
  /\ UNCHANGED <<findVars, sd, tx, mg, it, cs, rc, hk>>

\* FindAndCount, lines 43-57: find, its error returned, the field set back.
arFindAndCountFind(ok) ==
  /\ ar.pc = "find"
  /\ ar' = IF ~ok THEN ArReturn(ar, "find failed")
           ELSE [ar EXCEPT !.autoResetStatement = TRUE, !.pc = "count"]
  /\ UNCHANGED <<findVars, sd, tx, mg, it, cs, rc, hk>>

\* FindAndCount, lines 59-79: the statement is trimmed and Count is returned.
arFindAndCountCount(ok) ==
  /\ ar.pc = "count"
  /\ ar' = ArReturn(ar, IF ok THEN "nil" ELSE "count failed")
  /\ UNCHANGED <<findVars, sd, tx, mg, it, cs, rc, hk>>

\* Iterate, lines 25-48: the field, the deferred function, LastError, the
\* buffer size, Rows.
arIterate(lastError, buffered, rowsOk) ==
  /\ ar.pc = "idle" /\ ar.n < MaxOps
  /\ LET a == [ArStart(ar, "Iterate") EXCEPT !.deferred = Append(@, "Iterate")]
     IN ar' = IF lastError THEN ArReturn(a, "LastError")
              ELSE IF buffered THEN [a EXCEPT !.pc = "bufferIterate"]
              ELSE IF ~rowsOk THEN ArReturn(a, "Rows failed")
              ELSE [a EXCEPT !.pc = "rows"]
  /\ UNCHANGED <<findVars, sd, tx, mg, it, cs, rc, hk>>

\* Iterate, lines 50-63: the loop over the rows.
arIterateRows(err) ==
  /\ ar.pc = "rows"
  /\ ar' = ArReturn(ar, err)
  /\ UNCHANGED <<findVars, sd, tx, mg, it, cs, rc, hk>>

\* bufferIterate, lines 72-85.
arBufferIterate(pages) ==
  /\ ar.pc = "bufferIterate"
  /\ ar' = IF pages = 0
           THEN ArReturn([ar EXCEPT !.autoResetStatement = FALSE,
                                    !.deferred = Append(@, "bufferIterate")], "nil")
           ELSE [ar EXCEPT !.autoResetStatement = FALSE,
                           !.deferred = Append(@, "bufferIterate"),
                           !.left = pages, !.pc = "page"]
  /\ UNCHANGED <<findVars, sd, tx, mg, it, cs, rc, hk>>

\* bufferIterate, lines 87-110: one page, its find and its callbacks.
arBufferIteratePage(err) ==
  /\ ar.pc = "page"
  /\ ar' = IF err # "nil" THEN ArReturn([ar EXCEPT !.left = 0], err)
           ELSE IF ar.left = 1 THEN ArReturn([ar EXCEPT !.left = 0], "nil")
           ELSE [ar EXCEPT !.left = @ - 1]
  /\ UNCHANGED <<findVars, sd, tx, mg, it, cs, rc, hk>>

\* Insert, lines 26-38: the field and the deferred function.
arInsert(beans) ==
  /\ ar.pc = "idle" /\ ar.n < MaxOps
  /\ LET a == [ArStart(ar, "Insert") EXCEPT !.deferred = Append(@, "Insert")]
     IN ar' = IF beans = 0 THEN ArReturn(a, "nil")
              ELSE [a EXCEPT !.left = beans, !.pc = "insert"]
  /\ UNCHANGED <<findVars, sd, tx, mg, it, cs, rc, hk>>

\* Insert, lines 40-66: one bean of the loop.
arInsertBean(ok) ==
  /\ ar.pc = "insert"
  /\ ar' = IF ~ok THEN ArReturn([ar EXCEPT !.left = 0], "insert failed")
           ELSE IF ar.left = 1 THEN ArReturn([ar EXCEPT !.left = 0], "nil")
           ELSE [ar EXCEPT !.left = @ - 1]
  /\ UNCHANGED <<findVars, sd, tx, mg, it, cs, rc, hk>>

\* The caller has the result; the session, with its field as it is, is free
\* for the next operation.
arNext ==
  /\ ar.pc = "returned"
  /\ ar' = [ar EXCEPT !.pc = "idle", !.n = @ + 1]
  /\ UNCHANGED <<findVars, sd, tx, mg, it, cs, rc, hk>>

InitAr ==
  /\ FindOff
  /\ sd = Off /\ tx = Off /\ mg = Off /\ it = Off /\ cs = Off /\ rc = Off /\ hk = Off
  /\ ar = ArIdle

NextAr ==
  \/ arFindAndCount
  \/ \E ok \in BOOLEAN : arFindAndCountFind(ok)
  \/ \E ok \in BOOLEAN : arFindAndCountCount(ok)
  \/ \E lastError, buffered, rowsOk \in BOOLEAN : arIterate(lastError, buffered, rowsOk)
  \/ \E err \in {"nil", "scan failed", "callback failed"} : arIterateRows(err)
  \/ \E pages \in 0..MaxPages : arBufferIterate(pages)
  \/ \E err \in {"nil", "find failed", "callback failed"} : arBufferIteratePage(err)
  \/ \E beans \in 0..MaxBeans : arInsert(beans)
  \/ \E ok \in BOOLEAN : arInsertBean(ok)
  \/ arNext

SpecAr == InitAr /\ [][NextAr]_vars

\* C29: FindAndCount, Iterate, bufferIterate and Insert, which set
\* autoResetStatement to false, have set it back to true when they return, on
\* every exit path, error returns included.
C29_AutoResetRestoredAtReturn ==
  ar.pc = "returned" => ar.autoResetStatement

\* FindAndCount has returned the error of find with autoResetStatement false.
C29_FindAndCountLeavesItFalse ==
  /\ ar.pc = "returned" /\ ar.op = "FindAndCount"
  /\ ar.err = "find failed"
  /\ ~ar.autoResetStatement

=============================================================================
